---- MODULE Spec2Model ----
(***************************************************************************)
(* A model of the Aruba Central API client (src/lambda_py/api_client.py):  *)
(* token cache, rate limiter, retrying transport and pagination.           *)
(*                                                                         *)
(* Each caller thread runs one public operation at a time (variable op).   *)
(* The calls _do_request -> _authenticate -> _do_request ... nest, so the  *)
(* transport is modelled with an explicit call stack of frames per thread. *)
(* Time is an integer number of ticks; a thread that calls time.sleep(d)   *)
(* is suspended until the clock has reached now + d.                       *)
(***************************************************************************)
EXTENDS Integers, Sequences, FiniteSets, TLC

(* ------------------------------ bounds -------------------------------- *)

\* Physical HTTP requests (resource and token) in one behaviour.
MaxResponses == 4

\* Public operations started by one thread in one behaviour.
MaxOps == 2

\* page_limit of the client (the code's default is 100).
page_limit == 2

\* ARUBA_MAX_PAGES_PER_CALL (the code's default is 60).
max_pages_per_call == 3

\* Rows handed to one insert of the repository.
MaxRows == 4

(* ------------------------------- time --------------------------------- *)

\* Ticks per second. min_interval is multiplied by 1.25 at most once per
\* response, so with this unit every value the model computes is exact.
Sec == 2 * (4 ^ MaxResponses)

Min2(a, b) == IF a <= b THEN a ELSE b

Max2(a, b) == IF a >= b THEN a ELSE b

(* -------------------------- program constants -------------------------- *)

NoToken == 0

StaticToken == 1

NoTime == 0 - 1

early_expiry_buffer == 300 * Sec

max_retries == 3

max_backoff == 30 * Sec

page_delay_seconds == 2 * Sec

\* an assumed lifetime of one hour
StaticLifetime_OneHour == 3600 * Sec

StaticLifetime == 2 * 3600 * Sec

DefaultTtl == 7200 * Sec

InflateCap == 5 * Sec

UnparsableRetryAfterDelay == 5 * Sec

\* time.time() when the client is constructed; _last_request_ts starts at 0.0
StartTime == 100 * Sec

Threads == {1, 2}

(* ------------------------- environment choices ------------------------- *)

\* ARUBA_MIN_REQUEST_INTERVAL_SEC: unset (0.5), or set to 0, 4 or 8 seconds
MinIntervalChoices == {0, Sec \div 2, 4 * Sec, 8 * Sec}

\* expires_in values of the token endpoint, in seconds (0 - 1: field absent)
ExpiresInChoices == {0 - 1, 60, 400, 600}

\* Retry-After header of a 429: "absent", a number of seconds, or "bad"
RetryAfterChoices == {"absent", "0", "3", "bad"}

\* Time between two public operations of a warm process, in seconds
IdleChoices == {200, 6800}

\* The `next` cursors the upstream hands out
Cursors == {1, 2}

\* The records the upstream serves (0: the field is absent): one with an id,
\* one with a mac only, one with a name only, one with none of them
Items == << [id |-> 1, mac |-> 0, name |-> 1],
            [id |-> 0, mac |-> 2, name |-> 2],
            [id |-> 0, mac |-> 0, name |-> 3],
            [id |-> 0, mac |-> 0, name |-> 0] >>

\* k consecutive records starting at the i-th, wrapping around
Window(i, k) == [j \in 1..k |-> Items[((i + j - 2) % Len(Items)) + 1]]

\* The item arrays of a page: every length up to the page limit, from two
\* starting points, so that consecutive pages may overlap
PageLists == {Window(i, k) : i \in 1..2, k \in 0..page_limit}

\* The item arrays of a page of devices: from three starting points, so that
\* every kind of record is served
DevicePageLists == {Window(i, k) : i \in 1..3, k \in 0..page_limit}

(* ------------------------------ records -------------------------------- *)

NoNext == 0

\* A response body. kind: "token" (a JSON object with access_token), "dict"
\* (another JSON object), "list" (a JSON array), "malformed" (json.loads
\* rejects it), "none" (no body). arrays: the list-valued fields of the
\* object in order, as [key, val] records; for a JSON array, its one entry
\* holds the array. next: the `next` field (NoNext: absent, null or empty).
\* data: the `data` field when it is a JSON object (<<>>: it is not).
NoBody == [kind |-> "none", token |-> NoToken, ttl |-> 0 - 1, arrays |-> <<>>,
           next |-> NoNext, data |-> <<>>]

\* a token endpoint body carrying access_token (ttl in seconds, -1: no expires_in)
TokenBody(tk, ttl) == [NoBody EXCEPT !.kind = "token", !.token = tk, !.ttl = ttl]

\* a JSON object without access_token and without list-valued fields
DictBody == [NoBody EXCEPT !.kind = "dict"]

\* bytes that json.loads rejects
MalformedBody == [NoBody EXCEPT !.kind = "malformed"]

\* a page: a JSON object holding the item array under key, and `next`
PageBody(key, items, nxt) ==
    [NoBody EXCEPT !.kind = "dict", !.arrays = <<[key |-> key, val |-> items]>>,
                   !.next = nxt]

\* a page that is a bare JSON array
ListBody(items) ==
    [NoBody EXCEPT !.kind = "list", !.arrays = <<[key |-> "", val |-> items]>>]

\* what a call returned or raised. status: e.code of an HTTPError; names: the
\* status that str(e) spells out as "HTTP Error <status>" (0: none)
RetNone == [st |-> "none", body |-> NoBody, exc |-> "none", status |-> 0,
            names |-> 0]

RetOk(b) == [st |-> "ok", body |-> b, exc |-> "none", status |-> 0, names |-> 0]

RetExc(e, s) ==
    [st |-> "exc", body |-> NoBody, exc |-> e, status |-> s,
     names |-> IF e = "http" THEN s ELSE 0]

\* RuntimeError(f"[auth] re-auth after 401 failed err={reauth_err}")
Wrapped(r) == [RetExc("runtime", 0) EXCEPT !.names = r.names]

\* a frame of _do_request (fn = "req") or of _authenticate (fn = "auth")
ReqFrame(kind, attempt, tok, basic, rebuilt) ==
    [fn |-> "req", pc |-> "limiter", kind |-> kind, attempt |-> attempt,
     tok |-> tok, basic |-> basic, rebuilt |-> rebuilt, tmp |-> 0]

AuthFrame ==
    [fn |-> "auth", pc |-> "start", kind |-> "none", attempt |-> 0,
     tok |-> NoToken, basic |-> FALSE, rebuilt |-> FALSE, tmp |-> 0]

\* query parameters of a page request (limit 0, offset -1, next 0: not sent;
\* site: "none", "site-id" or "siteId"; filter: a `filter` entry is sent)
NoParams == [limit |-> 0, offset |-> 0 - 1, next |-> NoNext, site |-> "none",
             filter |-> FALSE]

\* the local variables of a public operation; the last seven are observations:
\*   requested  page requests issued by the current collector call
\*   firstNext  the `next` of its first response
\*   prevNext   the `next` of the last response it parsed
\*   lastLen    the item count of the last response it parsed
\*   raw        the items of the pages consumed so far, in order
\*   added, dups  the counters of list_devices for its last page
OpRec(name, pc) ==
    [name |-> name, pc |-> pc, result |-> RetNone, page |-> 0,
     next_token |-> NoNext, params |-> NoParams, collected |-> <<>>,
     seen |-> {}, variant |-> 0, requested |-> 0, firstNext |-> NoNext,
     prevNext |-> NoNext, lastLen |-> 0, raw |-> <<>>, added |-> 0, dups |-> 0]

IdleOp == OpRec("idle", "idle")

\* the local variables of a function that calls the client's operations and
\* handles what they return or raise. attempt, sites, slept: of
\* list_all_clients; items: what the function returns; result: returned (ok)
\* or raised (exc); err: the error kept for a later `raise`; gaveUp
\* (observation): an operation it called raised and it stopped there;
\* statusCode: what lambda_handler answered (0: not yet); fellBack
\* (observation): the function went on to the fallback listing
NoCaller == [name |-> "none", pc |-> "idle", attempt |-> 0, sites |-> <<>>,
             slept |-> FALSE, items |-> <<>>, result |-> RetNone, err |-> RetNone,
             gaveUp |-> FALSE, statusCode |-> 0, fellBack |-> FALSE]

(* ------------------------------- state --------------------------------- *)

VARIABLES
    client_id,        \* TRUE when a client id is configured
    client_secret,    \* TRUE when a client secret is configured
    access_token,     \* self._access_token (NoToken: None)
    expires_at,       \* self._expires_at (NoTime: None)
    min_interval,     \* self.min_interval, in ticks
    last_request_ts,  \* self._last_request_ts
    lock,             \* holder of self._lock (0: free)
    now,              \* the clock
    stack,            \* per thread: the frames of _do_request / _authenticate
    ret,              \* per thread: what the callee just returned or raised
    op,               \* per thread: the public operation in progress
    sleepUntil,       \* per thread: end of the current time.sleep (NoTime: awake)
    started,          \* per thread: operations started
    sent,             \* physical HTTP requests sent so far
    issued,           \* access tokens issued by the token endpoint so far
    lastReq,          \* the last physical request sent
    grant,            \* the last slot granted by the rate limiter
    miMax,            \* the largest value min_interval has held
    page_size,        \* ARUBA_PAGE_SIZE of the process
    caller,           \* per thread: the function calling the client's operations
    db,               \* the repository: its batch size and the insert in progress
    env,              \* ARUBA_DEVICE_STATUS_USE_V2 and .._FALLBACK_V1ALPHA1
    urls,             \* the URLs the client is built from and its token URL
    proc,             \* the handler process: its repository and invocations
    upstream,         \* a stable upstream: the page it serves for each cursor
    last429,          \* the last 429 response handled: when it came (at),
                      \* as which request (seq), min_interval before and
                      \* after its inflation; first: min_interval after the
                      \* first inflation of all
    obs               \* per thread: observations of the current operation

vars == <<client_id, client_secret, access_token, expires_at, min_interval,
          last_request_ts, lock, now, stack, ret, op, sleepUntil, started,
          sent, issued, lastReq, grant, miMax, last429, obs, upstream, page_size,
          caller, db, env, urls, proc>>

\* what stays as it is for the life of the process
cfgVars == <<client_id, client_secret, upstream, page_size, caller, db, env,
             urls, proc>>

\* the client's own state
clientVars == <<access_token, expires_at, min_interval, last_request_ts, lock>>

\* what only _do_request and its observers write
wireVars == <<stack, sent, issued, lastReq, grant, miMax, last429>>

\* what is fixed when the process starts, and the handler process, which
\* only the invocations of lambda_handler change
envVars == <<client_id, client_secret, upstream, page_size, env, urls, proc>>

\* ARUBA_DEVICE_STATUS_USE_V2 unset (false), .._FALLBACK_V1ALPHA1 unset (true)
DefaultEnv == [use_v2 |-> FALSE, fallback |-> TRUE]

\* self.page_limit = min(page_limit, 100)
ClientPageLimit == Min2(page_size, 100)

(* ------------------------- __init__: the token URL --------------------- *)

\* A string is a sequence of pieces, of which the code looks for "api.central"
\* and "/oauth2/token" and strips "/"; <<>> is the empty string
NoneStr == <<"None">>

\* a string that is neither None nor empty
Truthy(str) == str # NoneStr /\ str # <<>>

\* piece in str
Contains(str, piece) == \E i \in DOMAIN str : str[i] = piece

RECURSIVE RStripSlash(_)
\* base_url.rstrip("/")
RStripSlash(str) ==
    IF str # <<>> /\ str[Len(str)] = "/"
    THEN RStripSlash(SubSeq(str, 1, Len(str) - 1))
    ELSE str

SsoTokenUrl == <<"https://", "sso.common.cloud.hpe.com", "/as/token.oauth2">>

\* the base URLs of the secret: a gateway host and another host, with and
\* without trailing slashes
BaseUrls ==
    {<<"https://">> \o host \o tail :
        host \in {<<"apigw.", "api.central", ".arubanetworks.com">>,
                  <<"internal.example.com">>},
        tail \in {<<>>, <<"/">>, <<"/", "/">>}}

\* oauthTokenUrl of the secret: absent, empty, or a URL with or without the
\* path /oauth2/token
ExplicitTokenUrls ==
    {NoneStr, <<>>,
     <<"https://", "apigw.", "api.central", ".arubanetworks.com", "/oauth2/token">>,
     <<"https://", "auth.example.com", "/token">>}

\* ARUBA_OAUTH_TOKEN_URL: unset, empty, or a URL with or without the path
EnvTokenUrls ==
    {NoneStr, <<>>,
     <<"https://", "env.example.com", "/oauth2/token">>,
     <<"https://", "env.example.com", "/as/token">>}

\* a resolution that lets the SSO endpoint replace a configured token URL
ResolveTokenUrl_SsoOverExplicit(base_url, oauth_token_url, env_token_url) ==
    LET base == RStripSlash(base_url)
        given == IF Truthy(oauth_token_url) THEN oauth_token_url
                 ELSE base \o <<"/oauth2/token">>
        chosen == IF Truthy(env_token_url) THEN env_token_url ELSE given IN
    IF /\ Contains(chosen, "/oauth2/token")
       /\ Contains(base, "api.central")
       /\ ~Truthy(env_token_url)
    THEN SsoTokenUrl
    ELSE chosen

\* self.oauth_token_url after __init__
ResolveTokenUrl(base_url, oauth_token_url, env_token_url) ==
    LET base == RStripSlash(base_url)
        given == IF Truthy(oauth_token_url) THEN oauth_token_url
                 ELSE base \o <<"/oauth2/token">>
        chosen == IF Truthy(env_token_url) THEN env_token_url ELSE given IN
    IF /\ Contains(chosen, "/oauth2/token")
       /\ Contains(base, "api.central")
       /\ ~Truthy(env_token_url)
       /\ ~Truthy(oauth_token_url)
    THEN SsoTokenUrl
    ELSE chosen

\* the arguments and the environment of a client not yet built
Unbuilt(base_url, oauth_token_url, env_token_url) ==
    [built |-> FALSE, base_url_arg |-> base_url, oauth_token_url_arg |-> oauth_token_url,
     env_token_url |-> env_token_url, base_url |-> NoneStr,
     oauth_token_url |-> NoneStr]

\* ArubaApiClient(...)
Built(u) ==
    [u EXCEPT !.built = TRUE,
              !.base_url = RStripSlash(u.base_url_arg),
              !.oauth_token_url = ResolveTokenUrl(u.base_url_arg, u.oauth_token_url_arg,
                                                  u.env_token_url)]

\* a client built for a host that is no gateway, with no token URL configured
DefaultUrls ==
    Built(Unbuilt(<<"https://", "internal.example.com">>, NoneStr, NoneStr))

tokenVars == <<access_token, expires_at>>

(* ------------------------------ helpers -------------------------------- *)

Top(t) == stack[t][Len(stack[t])]

InFrame(t, fn, pc) ==
    /\ sleepUntil[t] = NoTime
    /\ stack[t] # <<>>
    /\ Top(t).fn = fn
    /\ Top(t).pc = pc

\* the thread is in the body of its public operation, at label pc
InOp(t, name, pc) ==
    /\ sleepUntil[t] = NoTime
    /\ stack[t] = <<>>
    /\ op[t].name = name
    /\ op[t].pc = pc

SetTop(t, f) == [stack EXCEPT ![t] = [@ EXCEPT ![Len(@)] = f]]

Push(t, f) == [stack EXCEPT ![t] = Append(@, f)]

\* the top frame moves to pc and then calls f
PushFrom(t, pc, f) ==
    [stack EXCEPT ![t] = Append([@ EXCEPT ![Len(@)].pc = pc], f)]

Pop(t) == [stack EXCEPT ![t] = SubSeq(@, 1, Len(@) - 1)]

Sleep(t, d) == [sleepUntil EXCEPT ![t] = IF d > 0 THEN now + d ELSE NoTime]

NoReq == [kind |-> "none", tok |-> NoToken, attempt |-> 0, at |-> NoTime,
          thread |-> 0, basic |-> FALSE, rebuilt |-> FALSE, params |-> NoParams,
          resp |-> "none", status |-> 0, matches |-> FALSE, mi |-> 0,
          cached |-> NoToken, expiry |-> NoTime, body |-> "none"]

\* the request thread t's top frame sends: a resource request carries the
\* query parameters its operation built. Observed with it: the answer (its
\* class resp, its status, and whether its body names the token, filled in by
\* Send) and min_interval and the cached token at that moment
ReqOf(t) == [kind |-> Top(t).kind, tok |-> Top(t).tok, attempt |-> Top(t).attempt,
             at |-> now, thread |-> t, basic |-> Top(t).basic,
             rebuilt |-> Top(t).rebuilt,
             params |-> IF Top(t).kind = "resource" THEN op[t].params ELSE NoParams,
             resp |-> "none", status |-> 0, matches |-> FALSE,
             mi |-> min_interval, cached |-> access_token, expiry |-> expires_at,
             body |-> "none"]

\* no _do_request is in progress on thread t: the next one is a logical request
NoRequestOpen(t) == \A i \in DOMAIN stack[t] : stack[t][i].fn # "req"

\* obs after thread t starts a logical request
ObsLogical(t) ==
    IF NoRequestOpen(t) THEN [obs EXCEPT ![t].reauths = 0] ELSE obs

\* observations of one thread, reset when a public operation starts:
\*   reauths   401 recoveries (token cleared, _authenticate called) during
\*             the current logical request (outermost _do_request call)
\*   requests  resource requests sent so far
\*   ensure    what the last _ensure_token saw (tok; left = expires_at - now)
\*             and did (authed: it called _authenticate; handed: it returned,
\*             with leftAtHandoff = expires_at - now at that moment)
NoEnsure == [done |-> FALSE, tok |-> NoToken, left |-> 0, authed |-> FALSE,
             handed |-> FALSE, leftAtHandoff |-> 0]

\*   prev      the collector call that ended last: what was called and what
\*             it returned or raised
NoPrev == [name |-> "none", variant |-> 0, st |-> "none", collected |-> <<>>]

NoObs == [reauths |-> 0, requests |-> 0, ensure |-> NoEnsure, prev |-> NoPrev]

(* ----------------------- _do_request: rate limiter --------------------- *)

\* wait = self.min_interval - (now - self._last_request_ts)
LimiterWait(mi, t_now, last) == mi - (t_now - last)

\* with self._lock: ...; if wait > 0: time.sleep(wait)
Limiter_Acquire(t) ==
    /\ InFrame(t, "req", "limiter")
    /\ lock = 0
    /\ lock' = t
    /\ sleepUntil' = Sleep(t, LimiterWait(min_interval, now, last_request_ts))
    /\ stack' = SetTop(t, [Top(t) EXCEPT !.pc = "grant"])
    /\ UNCHANGED <<cfgVars, tokenVars, min_interval, last_request_ts, now, ret,
                   op, started, sent, issued, lastReq, obs, grant, miMax, last429>>

\* a limiter that records the slot and keeps the lock
Limiter_Grant_KeepLock(t) ==
    /\ InFrame(t, "req", "grant")
    /\ lock = t
    /\ last_request_ts' = now
    /\ grant' = [n |-> grant.n + 1, at |-> now, gap |-> now - last_request_ts,
                 mi |-> min_interval, thread |-> t]
    /\ stack' = SetTop(t, [Top(t) EXCEPT !.pc = "send"])
    /\ UNCHANGED <<cfgVars, tokenVars, min_interval, now, ret, op, sleepUntil,
                   started, sent, issued, lastReq, obs, miMax, last429, lock>>

\* self._last_request_ts = time.time(), and the lock is released
Limiter_Grant(t) ==
    /\ InFrame(t, "req", "grant")
    /\ lock = t
    /\ last_request_ts' = now
    /\ lock' = 0
    /\ grant' = [n |-> grant.n + 1, at |-> now, gap |-> now - last_request_ts,
                 mi |-> min_interval, thread |-> t]
    /\ stack' = SetTop(t, [Top(t) EXCEPT !.pc = "send"])
    /\ UNCHANGED <<cfgVars, tokenVars, min_interval, now, ret, op, sleepUntil,
                   started, sent, issued, lastReq, obs, miMax, last429>>

\* the end of a time.sleep: the earliest sleeper wakes and the clock moves on
Wake(t) ==
    /\ sleepUntil[t] # NoTime
    /\ \A u \in Threads : sleepUntil[u] # NoTime => sleepUntil[t] <= sleepUntil[u]
    /\ now' = Max2(now, sleepUntil[t])
    /\ sleepUntil' = [sleepUntil EXCEPT ![t] = NoTime]
    /\ UNCHANGED <<cfgVars, tokenVars, min_interval, last_request_ts, lock, stack,
                   ret, op, started, sent, issued, lastReq, obs, grant, miMax, last429>>

(* ------------------------ _do_request: responses ----------------------- *)

RetriableStatuses == {429, 500, 502, 503, 504}

\* the statuses the model's upstream answers with, besides 2xx and 429
FatalStatuses == {401, 404}

ServerErrorStatuses == {500, 503}

\* float(retry_after) of the numeric Retry-After values, in ticks
RetryAfterTicks(ra) == IF ra = "3" THEN 3 * Sec ELSE 0

\* a 429 delay that never reads Retry-After
RetryAfterDelay_IgnoreHeader(ra, attempt, mi) ==
    Min2((2 ^ (attempt - 1)) * mi * 2, max_backoff)

\* a 429 delay whose fallback is the plain backoff of the 5xx branch
RetryAfterDelay_NoDoubling(ra, attempt, mi) ==
    CASE ra = "absent" -> Min2((2 ^ (attempt - 1)) * mi, max_backoff)
      [] ra = "bad"    -> UnparsableRetryAfterDelay
      [] OTHER         -> RetryAfterTicks(ra)

\* delay of the 429 branch: Retry-After if it parses, 5.0 if it does not,
\* min(2^(attempt-1) * min_interval * 2, max_backoff) without the header
RetryAfterDelay(ra, attempt, mi) ==
    CASE ra = "absent" -> Min2((2 ^ (attempt - 1)) * mi * 2, max_backoff)
      [] ra = "bad"    -> UnparsableRetryAfterDelay
      [] OTHER         -> RetryAfterTicks(ra)

\* a retry test that allows one attempt too many
MayRetry_OneMore(attempt) == attempt <= max_retries

\* attempt < self.max_retries
MayRetry(attempt) == attempt < max_retries

\* backoff = min(2^(attempt-1) * min_interval, max_backoff)
Backoff(attempt, mi) == Min2((2 ^ (attempt - 1)) * mi, max_backoff)

\* an inflation without the ceiling
Inflate_NoCap(mi) == (mi * 5) \div 4

\* min(self.min_interval * 1.25, 5.0)
Inflate(mi) == Min2((mi * 5) \div 4, InflateCap)

\* a 401 test that forgets the attempt number
IsReauthCase_AnyAttempt(status, attempt, bodyMatches) ==
    status = 401 /\ bodyMatches

\* "invalid access token" in lowered or "unauthorized" in lowered, on attempt 1
IsReauthCase(status, attempt, bodyMatches) ==
    status = 401 /\ attempt = 1 /\ bodyMatches

\* the pages an upstream listing may answer with
PageBodiesOf(key, lists) ==
    {PageBody(key, l, n) : l \in lists, n \in Cursors \cup {NoNext}}
    \cup {ListBody(l) : l \in lists}
    \cup {MalformedBody}

PageBodies(key) == PageBodiesOf(key, PageLists)

\* the bodies a 2xx response to thread t's request may carry
OkBodies(t) ==
    CASE Top(t).kind = "token" ->
           {TokenBody(StaticToken + issued + 1, ttl) : ttl \in ExpiresInChoices}
           \cup {DictBody, MalformedBody}
      [] op[t].name = "list_sites" -> PageBodies("sites")
      [] op[t].name = "list_clients" -> PageBodies("clients")
      [] op[t].name = "list_devices" -> PageBodiesOf("devices", DevicePageLists)
      [] op[t].name = "device_status_v2" ->
           {PageBody("events", l, NoNext) : l \in PageLists}
           \cup {ListBody(Window(1, 1)), MalformedBody}
      [] op[t].name = "get" /\ caller[t].name = "get_switch_interfaces" ->
           {PageBody("interfaces", Window(1, 2), NoNext), ListBody(Window(1, 1)),
            DictBody, MalformedBody}
      [] OTHER -> {DictBody, MalformedBody}

\* urlopen(req): the request leaves now and is answered with resp
SendBody(t, resp, status, matches, kind) ==
    /\ sent < MaxResponses
    /\ sent' = sent + 1
    /\ lastReq' = [ReqOf(t) EXCEPT !.resp = resp, !.status = status,
                                   !.matches = matches, !.body = kind]

\* the same, answered with an error
Send(t, resp, status, matches) == SendBody(t, resp, status, matches, "none")

\* with urlopen(...) as resp: return resp.read()
Http_Ok(t) ==
    /\ InFrame(t, "req", "send")
    /\ \E b \in OkBodies(t) :
         /\ SendBody(t, "ok", 200, FALSE, b.kind)
         /\ ret' = [ret EXCEPT ![t] = RetOk(b)]
         /\ issued' = IF b.kind = "token" THEN issued + 1 ELSE issued
    /\ stack' = Pop(t)
    /\ obs' = [obs EXCEPT ![t].requests = @ + (IF Top(t).kind = "resource" THEN 1 ELSE 0)]
    /\ UNCHANGED <<cfgVars, tokenVars, min_interval, last_request_ts, lock, now,
                   op, sleepUntil, started, grant, miMax, last429>>

\* a stable upstream: the page served depends on the request's cursor only
NoUpstream == [c \in {NoNext} \cup Cursors |-> NoBody]

StableUpstreams ==
    [{NoNext} \cup Cursors ->
       {PageBody("sites", l, n) : l \in PageLists, n \in Cursors \cup {NoNext}}
       \cup {MalformedBody}]

\* with urlopen(...) as resp: return resp.read(), against the stable upstream
Http_Stable(t) ==
    /\ InFrame(t, "req", "send")
    /\ Top(t).kind = "resource"
    /\ SendBody(t, "ok", 200, FALSE, upstream[op[t].params.next].kind)
    /\ ret' = [ret EXCEPT ![t] = RetOk(upstream[op[t].params.next])]
    /\ stack' = Pop(t)
    /\ obs' = [obs EXCEPT ![t].requests = @ + 1]
    /\ UNCHANGED <<cfgVars, tokenVars, min_interval, last_request_ts, lock, now,
                   op, sleepUntil, started, issued, grant, miMax, last429>>

\* JSON objects with up to two list-valued fields among sites, items, data and
\* another key, in either order, or with an object under data; and JSON arrays
FieldKeys == {"sites", "items", "data", "other"}

FieldLists == {Window(1, 1), Window(2, 1), <<>>}

\* the objects a `data` field may hold beside a list under key k
DataObjects(k) == IF k = "data" THEN {<<>>} ELSE {<<>>, <<Items[3]>>}

FieldBodies ==
    UNION {{[DictBody EXCEPT !.arrays = <<[key |-> k, val |-> l]>>, !.data = d] :
              l \in FieldLists, d \in DataObjects(k)} : k \in FieldKeys}
    \cup UNION {{[DictBody EXCEPT !.arrays = <<[key |-> k1, val |-> Window(1, 1)],
                                              [key |-> k2, val |-> Window(2, 1)]>>] :
                   k2 \in FieldKeys \ {k1}} : k1 \in FieldKeys}
    \cup {[DictBody EXCEPT !.data = <<Items[3]>>], DictBody, MalformedBody}
    \cup {ListBody(l) : l \in FieldLists}

\* body b with `next` set to n when b is an object
WithNext(b, n) == IF b.kind = "dict" THEN [b EXCEPT !.next = n] ELSE b

\* an upstream that serves one such body for every request, the first time
\* with or without a cursor
FieldUpstreams ==
    {[c \in {NoNext} \cup Cursors |-> IF c = NoNext THEN WithNext(b, n) ELSE b] :
        b \in FieldBodies, n \in {NoNext, 1}}

\* HTTPError 401 on attempt 1 with a body naming the token: the token is
\* cleared and _authenticate() is called
Http_401_Reauth(t) ==
    /\ InFrame(t, "req", "send")
    /\ IsReauthCase(401, Top(t).attempt, TRUE)
    /\ Send(t, "401", 401, TRUE)
    /\ access_token' = NoToken
    /\ expires_at' = NoTime
    /\ stack' = PushFrom(t, "reauth", AuthFrame)
    /\ obs' = [obs EXCEPT ![t].reauths = @ + 1,
                          ![t].requests = @ + (IF Top(t).kind = "resource" THEN 1 ELSE 0)]
    /\ UNCHANGED <<cfgVars, min_interval, last_request_ts, lock, now, ret, op,
                   sleepUntil, started, issued, grant, miMax, last429>>

\* any other HTTPError that is not retriable: raise
Http_Fatal(t) ==
    /\ InFrame(t, "req", "send")
    /\ \E status \in FatalStatuses, bodyMatches \in BOOLEAN :
         /\ ~IsReauthCase(status, Top(t).attempt, bodyMatches)
         /\ Send(t, "fatal", status, bodyMatches)
         /\ ret' = [ret EXCEPT ![t] = RetExc("http", status)]
    /\ stack' = Pop(t)
    /\ obs' = [obs EXCEPT ![t].requests = @ + (IF Top(t).kind = "resource" THEN 1 ELSE 0)]
    /\ UNCHANGED <<cfgVars, tokenVars, min_interval, last_request_ts, lock, now,
                   op, sleepUntil, started, issued, grant, miMax, last429>>

\* HTTPError 429 with Retry-After ra: time.sleep(delay)
Throttled(t, ra) ==
    /\ InFrame(t, "req", "send")
    /\ Send(t, "429", 429, FALSE)
    /\ LET delay == RetryAfterDelay(ra, Top(t).attempt, min_interval) IN
         /\ sleepUntil' = Sleep(t, delay)
         /\ last429' = [thread |-> t, seq |-> sent + 1, at |-> now, ra |-> ra,
                        delay |-> delay, attempt |-> Top(t).attempt,
                        miBefore |-> min_interval, miAfter |-> NoTime,
                        first |-> last429.first, writes |-> last429.writes,
                        count |-> last429.count + 1,
                        configured |-> last429.configured]
    /\ stack' = SetTop(t, [Top(t) EXCEPT !.pc = "inflate"])
    /\ obs' = [obs EXCEPT ![t].requests = @ + (IF Top(t).kind = "resource" THEN 1 ELSE 0)]
    /\ UNCHANGED <<cfgVars, tokenVars, min_interval, last_request_ts, lock, now,
                   ret, op, started, issued, grant, miMax>>

Http_429(t) == \E ra \in RetryAfterChoices : Throttled(t, ra)

\* a 429 that asks for an immediate retry
Http_429_Now(t) == Throttled(t, "0")

\* self.min_interval = min(self.min_interval * 1.25, 5.0): the read
Inflate_Read(t) ==
    /\ InFrame(t, "req", "inflate")
    /\ stack' = SetTop(t, [Top(t) EXCEPT !.pc = "inflate_w", !.tmp = min_interval])
    /\ UNCHANGED <<cfgVars, tokenVars, min_interval, last_request_ts, lock, now,
                   ret, op, sleepUntil, started, sent, issued, lastReq, grant,
                   miMax, last429, obs>>

\* ... the write; then "if retriable and attempt < self.max_retries" retries
\* (the 429 has already slept) and otherwise re-raises
Inflate_Write(t) ==
    /\ InFrame(t, "req", "inflate_w")
    /\ min_interval' = Inflate(Top(t).tmp)
    /\ miMax' = Max2(miMax, min_interval')
    /\ last429' = [last429 EXCEPT
                     !.miAfter = IF last429.thread = t THEN min_interval' ELSE @,
                     !.first = IF @ = NoTime THEN min_interval' ELSE @,
                     !.writes = @ + 1]
    /\ IF MayRetry(Top(t).attempt)
       THEN /\ stack' = SetTop(t, [Top(t) EXCEPT !.pc = "limiter",
                                                 !.attempt = @ + 1, !.tmp = 0])
            /\ ret' = ret
       ELSE /\ stack' = Pop(t)
            /\ ret' = [ret EXCEPT ![t] = RetExc("http", 429)]
    /\ UNCHANGED <<cfgVars, tokenVars, last_request_ts, lock, now, op, sleepUntil,
                   started, sent, issued, lastReq, grant, obs>>

\* HTTPError 500/502/503/504: back off and retry while attempts remain
Http_5xx(t) ==
    /\ InFrame(t, "req", "send")
    /\ \E status \in ServerErrorStatuses \cap RetriableStatuses :
         /\ Send(t, "5xx", status, FALSE)
         /\ IF MayRetry(Top(t).attempt)
            THEN /\ sleepUntil' = Sleep(t, Backoff(Top(t).attempt, min_interval))
                 /\ stack' = SetTop(t, [Top(t) EXCEPT !.pc = "limiter",
                                                      !.attempt = @ + 1])
                 /\ ret' = ret
            ELSE /\ ret' = [ret EXCEPT ![t] = RetExc("http", status)]
                 /\ stack' = Pop(t)
                 /\ sleepUntil' = sleepUntil
    /\ obs' = [obs EXCEPT ![t].requests = @ + (IF Top(t).kind = "resource" THEN 1 ELSE 0)]
    /\ UNCHANGED <<cfgVars, tokenVars, min_interval, last_request_ts, lock, now,
                   op, started, issued, grant, miMax, last429>>

\* URLError (DNS, timeout, reset): same backoff, then raise
Net_Fail(t) ==
    /\ InFrame(t, "req", "send")
    /\ Send(t, "net", 0, FALSE)
    /\ IF MayRetry(Top(t).attempt)
       THEN /\ sleepUntil' = Sleep(t, Backoff(Top(t).attempt, min_interval))
            /\ stack' = SetTop(t, [Top(t) EXCEPT !.pc = "limiter", !.attempt = @ + 1])
            /\ ret' = ret
       ELSE /\ ret' = [ret EXCEPT ![t] = RetExc("url", 0)]
            /\ stack' = Pop(t)
            /\ sleepUntil' = sleepUntil
    /\ obs' = [obs EXCEPT ![t].requests = @ + (IF Top(t).kind = "resource" THEN 1 ELSE 0)]
    /\ UNCHANGED <<cfgVars, tokenVars, min_interval, last_request_ts, lock, now,
                   op, started, issued, grant, miMax, last429>>

\* _authenticate() returned inside the 401 branch: the request is rebuilt with
\* self._headers() and sent again as attempt + 1; if it raised, RuntimeError
Reauth_Return(t) ==
    /\ InFrame(t, "req", "reauth")
    /\ ret[t].st # "none"
    /\ IF ret[t].st = "ok"
       THEN /\ stack' = PushFrom(t, "retry",
                           ReqFrame(Top(t).kind, Top(t).attempt + 1, access_token,
                                    FALSE, TRUE))
            /\ ret' = [ret EXCEPT ![t] = RetNone]
       ELSE /\ stack' = Pop(t)
            /\ ret' = [ret EXCEPT ![t] = Wrapped(ret[t])]
    /\ UNCHANGED <<cfgVars, tokenVars, min_interval, last_request_ts, lock, now,
                   op, sleepUntil, started, sent, issued, lastReq, grant, miMax,
                   last429, obs>>

\* the retried request returned: its result is returned, its exception is
\* wrapped in RuntimeError
Retry_Return(t) ==
    /\ InFrame(t, "req", "retry")
    /\ ret[t].st # "none"
    /\ stack' = Pop(t)
    /\ ret' = [ret EXCEPT ![t] = IF ret[t].st = "ok" THEN ret[t]
                                 ELSE Wrapped(ret[t])]
    /\ UNCHANGED <<cfgVars, tokenVars, min_interval, last_request_ts, lock, now,
                   op, sleepUntil, started, sent, issued, lastReq, grant, miMax,
                   last429, obs>>

(* ----------------------------- _authenticate --------------------------- *)

\* what _post_token returns: the parsed body, or None after any exception
PostTokenResult(r) ==
    IF r.st = "ok" /\ r.body.kind # "malformed" THEN r.body ELSE NoBody

\* not (not js or "access_token" not in js)
HasAccessToken(js) == js.kind = "token"

\* ttl = js.get("expires_in", 7200)
Ttl(js) == IF js.ttl < 0 THEN DefaultTtl ELSE js.ttl * Sec

\* entry of _authenticate: no secret raises; no client id installs the secret
\* as bearer for two hours; otherwise the form-encoded grant is posted
Auth_Start(t) ==
    /\ InFrame(t, "auth", "start")
    /\ IF ~client_secret
       THEN /\ stack' = Pop(t)
            /\ ret' = [ret EXCEPT ![t] = RetExc("runtime", 0)]
            /\ UNCHANGED tokenVars
       ELSE IF ~client_id
       THEN /\ access_token' = StaticToken
            /\ expires_at' = now + StaticLifetime
            /\ stack' = Pop(t)
            /\ ret' = [ret EXCEPT ![t] = RetOk(NoBody)]
       ELSE /\ stack' = PushFrom(t, "primary", ReqFrame("token", 1, NoToken, FALSE, FALSE))
            /\ ret' = [ret EXCEPT ![t] = RetNone]
            /\ UNCHANGED tokenVars
    /\ obs' = IF client_secret /\ client_id THEN ObsLogical(t) ELSE obs
    /\ UNCHANGED <<cfgVars, min_interval, last_request_ts, lock, now, op,
                   sleepUntil, started, sent, issued, lastReq, grant, miMax,
                   last429>>

\* self._access_token = js["access_token"]; self._expires_at = now + ttl
StoreToken(t, js) ==
    /\ access_token' = js.token
    /\ expires_at' = now + Ttl(js)
    /\ stack' = Pop(t)
    /\ ret' = [ret EXCEPT ![t] = RetOk(NoBody)]

\* the first _post_token returned: store the token, or post again with Basic
Auth_Primary(t) ==
    /\ InFrame(t, "auth", "primary")
    /\ ret[t].st # "none"
    /\ LET js == PostTokenResult(ret[t]) IN
       IF HasAccessToken(js)
       THEN StoreToken(t, js) /\ obs' = obs
       ELSE /\ stack' = PushFrom(t, "basic", ReqFrame("token", 1, NoToken, TRUE, FALSE))
            /\ ret' = [ret EXCEPT ![t] = RetNone]
            /\ obs' = ObsLogical(t)
            /\ UNCHANGED tokenVars
    /\ UNCHANGED <<cfgVars, min_interval, last_request_ts, lock, now, op,
                   sleepUntil, started, sent, issued, lastReq, grant, miMax,
                   last429>>

\* the Basic _post_token returned: store the token or raise RuntimeError
Auth_Basic(t) ==
    /\ InFrame(t, "auth", "basic")
    /\ ret[t].st # "none"
    /\ LET js == PostTokenResult(ret[t]) IN
       IF HasAccessToken(js)
       THEN StoreToken(t, js)
       ELSE /\ stack' = Pop(t)
            /\ ret' = [ret EXCEPT ![t] = RetExc("runtime", 0)]
            /\ UNCHANGED tokenVars
    /\ UNCHANGED <<cfgVars, min_interval, last_request_ts, lock, now, op,
                   sleepUntil, started, sent, issued, lastReq, grant, miMax,
                   last429, obs>>

(* ------------------------------ _ensure_token -------------------------- *)

\* a freshness test without the early-expiry buffer
TokenFresh_NoBuffer(tok, exp, t_now) ==
    tok # NoToken /\ exp # NoTime /\ t_now < exp

\* a freshness test that never looks at the expiry
TokenFresh_IgnoreExpiry(tok, exp, t_now) == tok # NoToken

\* self._access_token and self._expires_at and now + buffer < self._expires_at
TokenFresh(tok, exp, t_now) ==
    tok # NoToken /\ exp # NoTime /\ t_now + early_expiry_buffer < exp

\* a public operation may start when the thread runs none; between two
\* operations of a warm process time may pass
CanStart(t) ==
    /\ sleepUntil[t] = NoTime
    /\ stack[t] = <<>>
    /\ op[t].pc \in {"idle", "done"}
    /\ started[t] < MaxOps

\* what the collector call of thread t that has ended, if any, leaves as prev
PrevOf(t) ==
    IF op[t].pc = "done" /\ op[t].name = "list_sites"
    THEN [name |-> op[t].name, variant |-> op[t].variant, st |-> op[t].result.st,
          collected |-> op[t].collected]
    ELSE obs[t].prev

Begin(t, name, pc) ==
    /\ CanStart(t)
    /\ started' = [started EXCEPT ![t] = @ + 1]
    /\ op' = [op EXCEPT ![t] = OpRec(name, pc)]
    /\ obs' = [obs EXCEPT ![t] = [NoObs EXCEPT !.prev = PrevOf(t)]]
    /\ ret' = [ret EXCEPT ![t] = RetNone]

\* the process idles between two invocations
Idle ==
    /\ \A t \in Threads : stack[t] = <<>> /\ op[t].pc \in {"idle", "done"}
    /\ \E t \in Threads : op[t].pc = "done" /\ started[t] < MaxOps
    /\ \E d \in IdleChoices : now' = now + d * Sec
    /\ op' = [t \in Threads |-> IdleOp]
    /\ obs' = [t \in Threads |-> [obs[t] EXCEPT !.prev = PrevOf(t)]]
    /\ UNCHANGED <<cfgVars, tokenVars, min_interval, last_request_ts, lock, stack,
                   ret, sleepUntil, started, sent, issued, lastReq, grant, miMax,
                   last429>>

\* the operation ends: returns v or raises
Finish(t, r) == op' = [op EXCEPT ![t].pc = "done", ![t].result = r]

(* -------------------------- get / _get_json ---------------------------- *)

Get_Start(t) ==
    /\ Begin(t, "get", "ensure")
    /\ UNCHANGED <<cfgVars, tokenVars, min_interval, last_request_ts, lock, now,
                   stack, sleepUntil, sent, issued, lastReq, grant, miMax, last429>>

\* self._ensure_token(): return if the cached token is fresh, else authenticate
Get_Ensure(t) ==
    /\ InOp(t, "get", "ensure")
    /\ LET fresh == TokenFresh(access_token, expires_at, now) IN
       /\ obs' = [obs EXCEPT ![t].ensure =
                    [done |-> TRUE, tok |-> access_token,
                     left |-> IF expires_at = NoTime THEN 0 ELSE expires_at - now,
                     authed |-> ~fresh, handed |-> fresh,
                     leftAtHandoff |-> IF fresh THEN expires_at - now ELSE 0]]
       /\ IF fresh
          THEN /\ op' = [op EXCEPT ![t].pc = "build"]
               /\ stack' = stack
          ELSE /\ op' = [op EXCEPT ![t].pc = "ensure_wait"]
               /\ stack' = Push(t, AuthFrame)
    /\ UNCHANGED <<cfgVars, tokenVars, min_interval, last_request_ts, lock, now,
                   ret, sleepUntil, started, sent, issued, lastReq, grant, miMax,
                   last429>>

\* _authenticate() returned to _ensure_token
Get_Ensured(t) ==
    /\ InOp(t, "get", "ensure_wait")
    /\ ret[t].st # "none"
    /\ IF ret[t].st = "ok"
       THEN /\ op' = [op EXCEPT ![t].pc = "build"]
            /\ obs' = [obs EXCEPT ![t].ensure.handed = TRUE,
                                  ![t].ensure.leftAtHandoff = expires_at - now]
       ELSE /\ Finish(t, ret[t])
            /\ obs' = obs
    /\ ret' = [ret EXCEPT ![t] = RetNone]
    /\ UNCHANGED <<cfgVars, tokenVars, min_interval, last_request_ts, lock, now,
                   stack, sleepUntil, started, sent, issued, lastReq, grant, miMax,
                   last429>>

\* req = Request(url, headers=self._headers()); raw = self._do_request(req)
Get_Request(t) ==
    /\ InOp(t, "get", "build")
    /\ op' = [op EXCEPT ![t].pc = "await"]
    /\ stack' = Push(t, ReqFrame("resource", 1, access_token, FALSE, FALSE))
    /\ obs' = [obs EXCEPT ![t].reauths = 0]
    /\ UNCHANGED <<cfgVars, tokenVars, min_interval, last_request_ts, lock, now,
                   ret, sleepUntil, started, sent, issued, lastReq, grant, miMax,
                   last429>>

\* json.loads(raw.decode()), {} when it does not parse; exceptions propagate
Get_Return(t) ==
    /\ InOp(t, "get", "await")
    /\ ret[t].st # "none"
    /\ Finish(t, IF ret[t].st = "ok" /\ ret[t].body.kind = "malformed"
                 THEN RetOk(DictBody) ELSE ret[t])
    /\ ret' = [ret EXCEPT ![t] = RetNone]
    /\ UNCHANGED <<cfgVars, tokenVars, min_interval, last_request_ts, lock, now,
                   stack, sleepUntil, started, sent, issued, lastReq, grant, miMax,
                   last429, obs>>

(* --------------------- _cursor_or_offset_collect ----------------------- *)

CollectOps == {"list_sites", "list_clients", "fetch_all_aps"}

\* root_keys of the two listings
RootKeys(name) ==
    CASE name = "list_sites" -> <<"sites", "items", "data">>
      [] name = "fetch_all_aps" -> <<"items", "aps", "data">>
      [] OTHER -> <<"clients", "items", "data">>

\* the site parameter of each variant of list_clients_single_site
SiteParam(name, variant) ==
    CASE name = "list_clients" /\ variant = 1 -> "site-id"
      [] name = "list_clients" /\ variant = 2 -> "siteId"
      [] OTHER -> "none"

\* the arrays of js stored under key
Under(js, key) == SelectSeq(js.arrays, LAMBDA a : a.key = key)

RECURSIVE FirstRootKey(_, _, _)
\* for k in root_keys: if k in js and isinstance(js[k], list): return js[k]
FirstRootKey(js, keys, i) ==
    IF i > Len(keys) THEN <<>>
    ELSE IF Under(js, keys[i]) # <<>> THEN <<Under(js, keys[i])[1].val>>
    ELSE FirstRootKey(js, keys, i + 1)

\* _extract_items: 'items', then the root keys in order, then the first list
\* value of the object, then [js['data']] when data is an object; a JSON array
\* is its own item list
ExtractItems(js, keys) ==
    CASE js.kind = "list" -> js.arrays[1].val
      [] js.kind = "dict" /\ Under(js, "items") # <<>> -> Under(js, "items")[1].val
      [] js.kind = "dict" /\ FirstRootKey(js, keys, 1) # <<>> -> FirstRootKey(js, keys, 1)[1]
      [] js.kind = "dict" /\ js.arrays # <<>> -> js.arrays[1].val
      [] js.kind = "dict" /\ js.data # <<>> -> js.data
      [] OTHER -> <<>>

\* js.get("next") if isinstance(js, dict) else None
NextOf(js) == IF js.kind = "dict" THEN js.next ELSE NoNext

\* a first request that resumes from the cursor of the last request sent
FirstParams_ResumeCursor(name, variant) ==
    [NoParams EXCEPT !.limit = Min2(ClientPageLimit, 100), !.site = SiteParam(name, variant),
                     !.next = lastReq.params.next]

\* the limit among the params the caller passes to the collector (0: none):
\* _fetch_all_aps passes {"limit": page_size}
PassedLimit(name) == IF name = "fetch_all_aps" THEN page_size ELSE 0

\* limit = min(self.page_limit, 100); base_params = dict(params);
\* base_params.setdefault("limit", limit)
FirstParams(name, variant) ==
    [NoParams EXCEPT !.limit = IF PassedLimit(name) # 0 THEN PassedLimit(name)
                                ELSE Min2(ClientPageLimit, 100),
                     !.site = SiteParam(name, variant)]

\* a cursor request that keeps the first request's limit
CursorParams_KeepLimit(nxt, name, variant) ==
    [NoParams EXCEPT !.next = nxt, !.site = SiteParam(name, variant),
                     !.limit = Min2(ClientPageLimit, 100)]

\* a cursor request that repeats the cursor of the request before it
CursorParams_StaleCursor(nxt, name, variant) ==
    [NoParams EXCEPT !.next = IF lastReq.params.next # NoNext
                               THEN lastReq.params.next ELSE nxt,
                     !.site = SiteParam(name, variant)]

\* paging_params = {"next": next_token, **site_id_params}
CursorParams(nxt, name, variant) ==
    [NoParams EXCEPT !.next = nxt, !.site = SiteParam(name, variant)]

\* time.sleep(max(self.min_interval, min(self.page_delay_seconds, 1.0)))
PageSleep(mi) == Max2(mi, Min2(page_delay_seconds, 1 * Sec))

ListSites_Start(t) ==
    /\ Begin(t, "list_sites", "first")
    /\ UNCHANGED <<cfgVars, tokenVars, min_interval, last_request_ts, lock, now,
                   stack, sleepUntil, sent, issued, lastReq, grant, miMax, last429>>

\* _fetch_all_aps of the AP ingestion handler
FetchAllAps_Start(t) ==
    /\ Begin(t, "fetch_all_aps", "first")
    /\ UNCHANGED <<cfgVars, tokenVars, min_interval, last_request_ts, lock, now,
                   stack, sleepUntil, sent, issued, lastReq, grant, miMax, last429>>

ListClients_Start(t) ==
    /\ CanStart(t)
    /\ started' = [started EXCEPT ![t] = @ + 1]
    /\ op' = [op EXCEPT ![t] = [OpRec("list_clients", "first") EXCEPT !.variant = 1]]
    /\ obs' = [obs EXCEPT ![t] = NoObs]
    /\ ret' = [ret EXCEPT ![t] = RetNone]
    /\ UNCHANGED <<cfgVars, tokenVars, min_interval, last_request_ts, lock, now,
                   stack, sleepUntil, sent, issued, lastReq, grant, miMax, last429>>

\* the records of items from the i-th on whose position is not in fails
RECURSIVE Without(_, _, _)
Without(items, fails, i) ==
    IF i > Len(items) THEN <<>>
    ELSE (IF i \in fails THEN <<>> ELSE <<items[i]>>) \o Without(items, fails, i + 1)

\* a collection that skips the items whose annotate call raised
AppendItems_SkipFailed(collected, items, fails) ==
    collected \o Without(items, fails, 1)

\* for it in items: try annotate(it), ignoring what it raises (fails: the
\* positions where it raises); collected.append(it)
AppendItems(collected, items, fails) == collected \o items

\* the positions of a page at which the annotate callback may raise: any for
\* list_clients_single_site, none for list_sites, which passes no callback
AnnotateFailures(name, items) ==
    IF name = "list_clients" THEN SUBSET DOMAIN items ELSE {{}}

\* the first request: url from base_params, headers from self._headers()
Collect_First(t) ==
    /\ \E name \in CollectOps : InOp(t, name, "first")
    /\ op' = [op EXCEPT ![t] =
                [OpRec(op[t].name, "first_wait") EXCEPT
                   !.variant = op[t].variant,
                   !.params = FirstParams(op[t].name, op[t].variant),
                   !.requested = 1]]
    /\ stack' = Push(t, ReqFrame("resource", 1, access_token, FALSE, FALSE))
    /\ obs' = [obs EXCEPT ![t].reauths = 0]
    /\ UNCHANGED <<cfgVars, tokenVars, min_interval, last_request_ts, lock, now,
                   ret, sleepUntil, started, sent, issued, lastReq, grant, miMax,
                   last429>>

\* the collector returns items: list_sites returns them; list_clients_single_site
\* returns them when there are any, else tries its next variant, else []
CollectReturn(t, o, items) ==
    IF o.name = "list_clients" /\ items = <<>> /\ o.variant < 2
    THEN op' = [op EXCEPT ![t] = [o EXCEPT !.pc = "first", !.variant = @ + 1]]
    ELSE op' = [op EXCEPT ![t] = [o EXCEPT !.pc = "done", !.collected = items,
                                           !.result = RetOk(NoBody)]]

\* a page that json.loads rejects raises out of the collector
CollectBreak_Raise(t, collected) == Finish(t, RetExc("JSONDecodeError", 0))

\* except Exception: return [] (first page) / break (later pages)
CollectBreak(t, collected) == CollectReturn(t, op[t], collected)

\* the first response: [] when it does not parse; else its items are collected
Collect_FirstReturn(t) ==
    /\ \E name \in CollectOps : InOp(t, name, "first_wait")
    /\ ret[t].st # "none"
    /\ ret' = [ret EXCEPT ![t] = RetNone]
    /\ LET js == ret[t].body
           items == ExtractItems(js, RootKeys(op[t].name)) IN
       IF ret[t].st = "exc" THEN Finish(t, ret[t])
       ELSE IF js.kind = "malformed" THEN CollectBreak(t, <<>>)
       ELSE \E fails \in AnnotateFailures(op[t].name, items) :
              op' = [op EXCEPT ![t].pc = "loop", ![t].page = 1,
                             ![t].collected = AppendItems(<<>>, items, fails),
                             ![t].raw = items,
                             ![t].next_token = NextOf(js),
                             ![t].firstNext = NextOf(js),
                             ![t].prevNext = NextOf(js),
                             ![t].lastLen = Len(items)]
    /\ UNCHANGED <<cfgVars, tokenVars, min_interval, last_request_ts, lock, now,
                   stack, sleepUntil, started, sent, issued, lastReq, grant, miMax,
                   last429, obs>>

\* a loop test without the page ceiling
MorePages_NoCeiling(next_token, page) == next_token # NoNext

\* while next_token and page < self.max_pages_per_call
MorePages(next_token, page) ==
    next_token # NoNext /\ page < max_pages_per_call

\* the head of the cursor loop: request the next page, or return
Collect_Loop(t) ==
    /\ \E name \in CollectOps : InOp(t, name, "loop")
    /\ IF MorePages(op[t].next_token, op[t].page)
       THEN /\ op' = [op EXCEPT ![t].pc = "page_wait",
                                ![t].params = CursorParams(op[t].next_token,
                                                           op[t].name, op[t].variant),
                                ![t].requested = @ + 1]
            /\ stack' = Push(t, ReqFrame("resource", 1, access_token, FALSE, FALSE))
       ELSE /\ CollectReturn(t, op[t], op[t].collected)
            /\ stack' = stack
    /\ obs' = [obs EXCEPT ![t].reauths = 0]
    /\ UNCHANGED <<cfgVars, tokenVars, min_interval, last_request_ts, lock, now,
                   ret, sleepUntil, started, sent, issued, lastReq, grant, miMax,
                   last429>>

\* a cursor page: break when it does not parse or holds no items; else collect
\* it, take its `next`, and (per_page_site_delay) sleep before the next page
Collect_PageReturn(t) ==
    /\ \E name \in CollectOps : InOp(t, name, "page_wait")
    /\ ret[t].st # "none"
    /\ ret' = [ret EXCEPT ![t] = RetNone]
    /\ LET js == ret[t].body
           items == ExtractItems(js, RootKeys(op[t].name))
           seenPage == [op[t] EXCEPT !.page = @ + 1, !.prevNext = NextOf(js),
                                     !.lastLen = Len(items)] IN
       IF ret[t].st = "exc"
       THEN Finish(t, ret[t]) /\ sleepUntil' = sleepUntil
       ELSE IF js.kind = "malformed"
       THEN CollectBreak(t, op[t].collected) /\ sleepUntil' = sleepUntil
       ELSE IF items = <<>>
       THEN CollectReturn(t, seenPage, op[t].collected) /\ sleepUntil' = sleepUntil
       ELSE /\ \E fails \in AnnotateFailures(op[t].name, items) :
                 op' = [op EXCEPT ![t] = [seenPage EXCEPT !.pc = "loop",
                                           !.collected = AppendItems(@, items, fails),
                                           !.raw = @ \o items,
                                           !.next_token = NextOf(js)]]
            /\ sleepUntil' = IF op[t].name = "list_clients"
                             THEN Sleep(t, PageSleep(min_interval)) ELSE sleepUntil
    /\ UNCHANGED <<cfgVars, tokenVars, min_interval, last_request_ts, lock, now,
                   stack, started, sent, issued, lastReq, grant, miMax, last429,
                   obs>>

(* ------------------------------ list_devices --------------------------- *)

DeviceKeys == <<"devices", "items", "data">>

\* page_items of list_devices: the first of devices/items/data that is a list;
\* when that is missing or empty, the first list value of the object
DevicePageItems(js) ==
    CASE js.kind = "list" -> js.arrays[1].val
      [] js.kind = "dict" /\ FirstRootKey(js, DeviceKeys, 1) # <<>>
                          /\ FirstRootKey(js, DeviceKeys, 1)[1] # <<>>
           -> FirstRootKey(js, DeviceKeys, 1)[1]
      [] js.kind = "dict" /\ js.arrays # <<>> -> js.arrays[1].val
      [] OTHER -> <<>>

\* the "name|ipv4" key of a record without identifier (kept apart from ids)
CompositeKey(d) == 100 + d.name

\* key = id or ... or mac or ...; else the name composite; 0 when none
DedupKey(d) ==
    IF d.id # 0 THEN d.id
    ELSE IF d.mac # 0 THEN d.mac
    ELSE IF d.name # 0 THEN CompositeKey(d)
    ELSE 0

RECURSIVE Dedup_KeylessSeen(_, _, _, _, _, _)
\* a deduplication that forgets the `if key` tests: a record without key is
\* remembered under "no key", and the next such record is dropped
Dedup_KeylessSeen(items, i, collected, seen, added, dups) ==
    IF i > Len(items)
    THEN [collected |-> collected, seen |-> seen, added |-> added, dups |-> dups]
    ELSE LET key == DedupKey(items[i]) IN
         IF key \in seen
         THEN Dedup_KeylessSeen(items, i + 1, collected, seen, added, dups + 1)
         ELSE Dedup_KeylessSeen(items, i + 1, Append(collected, items[i]),
                                seen \cup {key}, added + 1, dups)

RECURSIVE Dedup(_, _, _, _, _, _)
\* for d in page_items: skip d (dups += 1) when its key was seen, else
\* remember the key and append d (added += 1)
Dedup(items, i, collected, seen, added, dups) ==
    IF i > Len(items)
    THEN [collected |-> collected, seen |-> seen, added |-> added, dups |-> dups]
    ELSE LET key == DedupKey(items[i]) IN
         IF key # 0 /\ key \in seen
         THEN Dedup(items, i + 1, collected, seen, added, dups + 1)
         ELSE Dedup(items, i + 1, Append(collected, items[i]),
                    IF key # 0 THEN seen \cup {key} ELSE seen, added + 1, dups)

\* params of page `page`: {"next": next_token} after the first page when a
\* token is held, else the base params
DeviceParams(page, nxt) ==
    IF page > 1 /\ nxt # NoNext THEN [NoParams EXCEPT !.next = nxt]
    ELSE [NoParams EXCEPT !.limit = ClientPageLimit]

ListDevices_Start(t) ==
    /\ Begin(t, "list_devices", "loop")
    /\ UNCHANGED <<cfgVars, tokenVars, min_interval, last_request_ts, lock, now,
                   stack, sleepUntil, sent, issued, lastReq, grant, miMax, last429>>

\* page += 1; the request of this page, with headers from self._headers()
Devices_Request(t) ==
    /\ InOp(t, "list_devices", "loop")
    /\ op' = [op EXCEPT ![t].pc = "page_wait", ![t].page = @ + 1,
                        ![t].params = DeviceParams(op[t].page + 1, op[t].next_token),
                        ![t].requested = @ + 1]
    /\ stack' = Push(t, ReqFrame("resource", 1, access_token, FALSE, FALSE))
    /\ obs' = [obs EXCEPT ![t].reauths = 0]
    /\ UNCHANGED <<cfgVars, tokenVars, min_interval, last_request_ts, lock, now,
                   ret, sleepUntil, started, sent, issued, lastReq, grant, miMax,
                   last429>>

\* the page: break when it does not parse or is empty; add its new records;
\* break without `next` or at max_pages_per_call; else sleep and go on
Devices_Return(t) ==
    /\ InOp(t, "list_devices", "page_wait")
    /\ ret[t].st # "none"
    /\ ret' = [ret EXCEPT ![t] = RetNone]
    /\ LET js == ret[t].body
           items == DevicePageItems(js)
           dd == Dedup(items, 1, op[t].collected, op[t].seen, 0, 0)
           added == [op[t] EXCEPT !.collected = dd.collected, !.seen = dd.seen,
                                  !.raw = @ \o items, !.added = dd.added,
                                  !.dups = dd.dups,
                                  !.prevNext = NextOf(js), !.lastLen = Len(items),
                                  !.firstNext = IF op[t].page = 1 THEN NextOf(js) ELSE @]
           done(o) == op' = [op EXCEPT ![t] = [o EXCEPT !.pc = "done",
                                                        !.result = RetOk(NoBody)]] IN
       IF ret[t].st = "exc"
       THEN Finish(t, ret[t]) /\ sleepUntil' = sleepUntil
       ELSE IF js.kind = "malformed" \/ items = <<>>
       THEN done(op[t]) /\ sleepUntil' = sleepUntil
       ELSE IF NextOf(js) = NoNext
       THEN done(added) /\ sleepUntil' = sleepUntil
       ELSE IF op[t].page >= max_pages_per_call
       THEN done([added EXCEPT !.next_token = NextOf(js)]) /\ sleepUntil' = sleepUntil
       ELSE /\ op' = [op EXCEPT ![t] = [added EXCEPT !.pc = "loop",
                                                     !.next_token = NextOf(js)]]
            /\ sleepUntil' = Sleep(t, PageSleep(min_interval))
    /\ UNCHANGED <<cfgVars, tokenVars, min_interval, last_request_ts, lock, now,
                   stack, started, sent, issued, lastReq, grant, miMax, last429,
                   obs>>

(* ------------------- functions that call the client -------------------- *)

\* a caller may start when the thread runs nothing
CallerCanStart(t) ==
    /\ CanStart(t)
    /\ caller[t].pc \in {"idle", "done"}

CallerBegin(t, name, pc) ==
    /\ CallerCanStart(t)
    /\ caller' = [caller EXCEPT ![t] = [NoCaller EXCEPT !.name = name, !.pc = pc]]
    /\ op' = [op EXCEPT ![t] = IdleOp]
    /\ UNCHANGED <<envVars, db, clientVars, wireVars, now, ret, sleepUntil, started, obs>>

\* thread t's caller is at pc and the operation it called has not started
AtCall(t, name, pc) ==
    /\ caller[t].name = name
    /\ caller[t].pc = pc
    /\ op[t].pc = "idle"

\* thread t's caller is at pc and the operation it called has ended
Returned(t, name, pc) ==
    /\ caller[t].name = name
    /\ caller[t].pc = pc
    /\ op[t].pc = "done"
    /\ stack[t] = <<>>
    /\ sleepUntil[t] = NoTime

\* the caller returns items
CallerReturns(c, items) ==
    [c EXCEPT !.pc = "done", !.items = items, !.result = RetOk(NoBody)]

\* the caller raises r
CallerRaises(c, r) ==
    [c EXCEPT !.pc = "done", !.items = <<>>, !.result = r, !.gaveUp = TRUE]

\* except Exception: log and return []
Swallow(c, r) == [CallerReturns(c, <<>>) EXCEPT !.gaveUp = TRUE]

(* get_switch_interfaces *)

InterfaceKeys == <<"interfaces", "items", "data">>

\* the first of interfaces/items/data that is a list; js when it is a list
InterfaceItems(js) ==
    CASE js.kind = "dict" /\ FirstRootKey(js, InterfaceKeys, 1) # <<>>
           -> FirstRootKey(js, InterfaceKeys, 1)[1]
      [] js.kind = "list" -> js.arrays[1].val
      [] OTHER -> <<>>

SwitchInterfaces_Start(t) == CallerBegin(t, "get_switch_interfaces", "get")

\* js = self._get_json(endpoint, params)
SwitchInterfaces_Get(t) ==
    /\ AtCall(t, "get_switch_interfaces", "get")
    /\ Get_Start(t)

SwitchInterfaces_Return(t) ==
    /\ Returned(t, "get_switch_interfaces", "get")
    /\ LET r == op[t].result IN
       caller' = [caller EXCEPT ![t] =
                    IF r.st = "exc" THEN Swallow(@, r)
                    ELSE CallerReturns(@, InterfaceItems(r.body))]
    /\ UNCHANGED <<envVars, db, clientVars, wireVars, now, ret, op, sleepUntil, started,
                   obs>>

(* list_all_clients *)

\* site_id_override given: list_clients_single_site(site_id_override);
\* otherwise the sites are enumerated first
AllClients_Start(t) ==
    \E override \in BOOLEAN :
      CallerBegin(t, "list_all_clients", IF override THEN "override" ELSE "sites")

\* sites = self.list_sites()
AllClients_ListSites(t) ==
    /\ AtCall(t, "list_all_clients", "sites")
    /\ ListSites_Start(t)

\* for attempt in range(2): the second failure returns []
AllClients_SitesReturn(t) ==
    /\ Returned(t, "list_all_clients", "sites")
    /\ LET r == op[t].result IN
       caller' = [caller EXCEPT ![t] =
                    IF r.st = "ok"
                    THEN [@ EXCEPT !.pc = "clients", !.sites = op[t].collected]
                    ELSE IF @.attempt = 1 THEN Swallow(@, r)
                    ELSE [@ EXCEPT !.attempt = 1]]
    /\ op' = [op EXCEPT ![t] = IdleOp]
    /\ UNCHANGED <<envVars, db, clientVars, wireVars, now, ret, sleepUntil, started, obs>>

\* the loop over the sites: return when none is left; skip a site without id;
\* time.sleep(self.page_delay_seconds) once clients have been found
AllClients_NextSite(t) ==
    /\ AtCall(t, "list_all_clients", "clients")
    /\ sleepUntil[t] = NoTime
    /\ LET c == caller[t] IN
       IF c.sites = <<>>
       THEN /\ caller' = [caller EXCEPT ![t] = CallerReturns(c, c.items)]
            /\ sleepUntil' = sleepUntil
       ELSE IF Head(c.sites).id = 0
       THEN /\ caller' = [caller EXCEPT ![t].sites = Tail(c.sites)]
            /\ sleepUntil' = sleepUntil
       ELSE /\ ~c.slept
            /\ caller' = [caller EXCEPT ![t].slept = TRUE]
            /\ sleepUntil' = IF c.items # <<>> THEN Sleep(t, page_delay_seconds)
                             ELSE sleepUntil
    /\ UNCHANGED <<envVars, db, clientVars, wireVars, now, ret, op, started, obs>>

\* site_clients = self.list_clients_single_site(sid)
AllClients_ListClients(t) ==
    /\ \/ AtCall(t, "list_all_clients", "override")
       \/ AtCall(t, "list_all_clients", "clients") /\ caller[t].slept
    /\ ListClients_Start(t)

\* all_clients.extend(site_clients); an exception is not caught
AllClients_ClientsReturn(t) ==
    /\ \/ Returned(t, "list_all_clients", "override")
       \/ Returned(t, "list_all_clients", "clients")
    /\ LET r == op[t].result
           c == caller[t] IN
       caller' = [caller EXCEPT ![t] =
                    IF r.st = "exc" THEN CallerRaises(c, r)
                    ELSE IF c.pc = "override" THEN CallerReturns(c, op[t].collected)
                    ELSE [c EXCEPT !.items = @ \o op[t].collected,
                                   !.sites = Tail(@), !.slept = FALSE]]
    /\ op' = [op EXCEPT ![t] = IdleOp]
    /\ UNCHANGED <<envVars, db, clientVars, wireVars, now, ret, sleepUntil, started, obs>>

(* _fetch_device_status_events, on the devices endpoint *)

\* if (not use_v2) or "/v1alpha1/devices" in endpoint: the devices listing
DeviceStatus_Start(t) ==
    CallerBegin(t, "fetch_device_status", IF env.use_v2 THEN "v2" ELSE "devices")

\* devices = _api.list_devices()
DeviceStatus_ListDevices(t) ==
    /\ AtCall(t, "fetch_device_status", "devices")
    /\ ListDevices_Start(t)

DeviceStatus_DevicesReturn(t) ==
    /\ Returned(t, "fetch_device_status", "devices")
    /\ LET r == op[t].result IN
       caller' = [caller EXCEPT ![t] =
                    IF r.st = "exc" THEN Swallow(@, r)
                    ELSE CallerReturns(@, op[t].collected)]
    /\ UNCHANGED <<envVars, db, clientVars, wireVars, now, ret, op, sleepUntil, started,
                   obs>>

(* _fetch_device_status_events, on the v2 endpoint *)

StatusKeys == <<"items", "events", "data">>

\* page_items of the v2 loop: a JSON array itself; the first of
\* items/events/data that is a list; when that is missing or empty, the first
\* list value of the object
StatusPageItems(js) ==
    CASE js.kind = "list" -> js.arrays[1].val
      [] js.kind = "dict" /\ FirstRootKey(js, StatusKeys, 1) # <<>>
                          /\ FirstRootKey(js, StatusKeys, 1)[1] # <<>>
           -> FirstRootKey(js, StatusKeys, 1)[1]
      [] js.kind = "dict" /\ js.arrays # <<>> -> js.arrays[1].val
      [] OTHER -> <<>>

\* "HTTP Error 404" in str(e)
Is404(r) == r.st = "exc" /\ r.names = 404

\* a handler that re-raises what the fallback listing raised
FallbackFailure_Raised(kept, raised) == raised

\* except Exception: logger.exception(...), then the bare `raise` of the outer
\* handler: the error of the v2 request is raised again
FallbackFailure(kept, raised) == kept

\* an offset that stays where it is
NextOffset_Stuck(offset, limit) == offset

\* offset += page_limit
NextOffset(offset, limit) == offset + limit

\* events = [], offset = 0, page = 0; the loop starts
DeviceStatus_V2(t) ==
    /\ AtCall(t, "fetch_device_status", "v2")
    /\ Begin(t, "device_status_v2", "ensure")
    /\ UNCHANGED <<cfgVars, tokenVars, min_interval, last_request_ts, lock, now,
                   stack, sleepUntil, sent, issued, lastReq, grant, miMax, last429>>

\* page += 1; params = {"limit": page_limit, "offset": offset};
\* _api._ensure_token(), outside the try
V2_Ensure(t) ==
    /\ InOp(t, "device_status_v2", "ensure")
    /\ sleepUntil[t] = NoTime
    /\ op' = [op EXCEPT ![t].page = @ + 1,
                        ![t].params = [NoParams EXCEPT
                                         !.limit = ClientPageLimit,
                                         !.offset = IF op[t].page = 0 THEN 0
                                                    ELSE op[t].params.offset],
                        ![t].pc = IF TokenFresh(access_token, expires_at, now)
                                  THEN "build" ELSE "ensure_wait"]
    /\ stack' = IF TokenFresh(access_token, expires_at, now) THEN stack
                ELSE Push(t, AuthFrame)
    /\ UNCHANGED <<cfgVars, tokenVars, min_interval, last_request_ts, lock, now,
                   ret, sleepUntil, started, sent, issued, lastReq, grant, miMax,
                   last429, obs>>

\* _authenticate() returned to _ensure_token; what it raised leaves the function
V2_Ensured(t) ==
    /\ InOp(t, "device_status_v2", "ensure_wait")
    /\ ret[t].st # "none"
    /\ IF ret[t].st = "ok"
       THEN op' = [op EXCEPT ![t].pc = "build"]
       ELSE op' = [op EXCEPT ![t].pc = "done", ![t].result = ret[t],
                             ![t].variant = 1]
    /\ ret' = [ret EXCEPT ![t] = RetNone]
    /\ UNCHANGED <<cfgVars, tokenVars, min_interval, last_request_ts, lock, now,
                   stack, sleepUntil, started, sent, issued, lastReq, grant, miMax,
                   last429, obs>>

\* req = Request(url, headers=_api._headers()); raw = _api._do_request(req)
V2_Request(t) ==
    /\ InOp(t, "device_status_v2", "build")
    /\ op' = [op EXCEPT ![t].pc = "await", ![t].requested = @ + 1]
    /\ stack' = Push(t, ReqFrame("resource", 1, access_token, FALSE, FALSE))
    /\ obs' = [obs EXCEPT ![t].reauths = 0]
    /\ UNCHANGED <<cfgVars, tokenVars, min_interval, last_request_ts, lock, now,
                   ret, sleepUntil, started, sent, issued, lastReq, grant, miMax,
                   last429>>

\* the page: an exception goes to the except clause; break when the page does
\* not parse or is empty; events.extend(page_items); break on a short page or
\* at max_pages; else offset += page_limit and time.sleep(page_delay_seconds)
V2_Return(t) ==
    /\ InOp(t, "device_status_v2", "await")
    /\ ret[t].st # "none"
    /\ ret' = [ret EXCEPT ![t] = RetNone]
    /\ LET js == ret[t].body
           items == StatusPageItems(js)
           read == [op[t] EXCEPT !.raw = @ \o items, !.lastLen = Len(items)]
           added == [read EXCEPT !.collected = @ \o items]
           done(o) == op' = [op EXCEPT ![t] = [o EXCEPT !.pc = "done",
                                                        !.result = RetOk(NoBody)]] IN
       IF ret[t].st = "exc"
       THEN Finish(t, ret[t]) /\ sleepUntil' = sleepUntil
       ELSE IF js.kind = "malformed" \/ items = <<>>
       THEN done(read) /\ sleepUntil' = sleepUntil
       ELSE IF Len(items) < ClientPageLimit \/ op[t].page >= max_pages_per_call
       THEN done(added) /\ sleepUntil' = sleepUntil
       ELSE /\ op' = [op EXCEPT ![t] =
                        [added EXCEPT !.pc = "ensure",
                                      !.params.offset =
                                         NextOffset(@, ClientPageLimit)]]
            /\ sleepUntil' = Sleep(t, page_delay_seconds)
    /\ UNCHANGED <<cfgVars, tokenVars, min_interval, last_request_ts, lock, now,
                   stack, started, sent, issued, lastReq, grant, miMax, last429,
                   obs>>

\* the loop ended: return events; or _ensure_token raised: it propagates; or
\* _do_request raised: with "HTTP Error 404" in str(e) and the fallback flag
\* on, go on to list_devices(), else raise
DeviceStatus_V2Return(t) ==
    /\ Returned(t, "fetch_device_status", "v2")
    /\ LET r == op[t].result IN
       caller' = [caller EXCEPT ![t] =
                    IF r.st = "ok" THEN CallerReturns(@, op[t].collected)
                    ELSE IF op[t].variant = 0 /\ Is404(r) /\ env.fallback
                    THEN [@ EXCEPT !.pc = "fallback", !.err = r, !.fellBack = TRUE]
                    ELSE CallerRaises([@ EXCEPT !.err = r], r)]
    /\ op' = [op EXCEPT ![t] = IdleOp]
    /\ UNCHANGED <<envVars, db, clientVars, wireVars, now, ret, sleepUntil, started, obs>>

\* legacy_devices = _api.list_devices()
DeviceStatus_Fallback(t) ==
    /\ AtCall(t, "fetch_device_status", "fallback")
    /\ ListDevices_Start(t)

\* return legacy_devices; or the listing raised: log, and raise
DeviceStatus_FallbackReturn(t) ==
    /\ Returned(t, "fetch_device_status", "fallback")
    /\ LET r == op[t].result IN
       caller' = [caller EXCEPT ![t] =
                    IF r.st = "ok" THEN CallerReturns(@, op[t].collected)
                    ELSE CallerRaises(@, FallbackFailure(@.err, r))]
    /\ UNCHANGED <<envVars, db, clientVars, wireVars, now, ret, op, sleepUntil, started,
                   obs>>

(* ------------------- MySqlRepository: batched inserts ------------------ *)

\* ARUBA_DB_INSERT_BATCH_SIZE: unset ("0": one batch of all rows), or 1 to 3
BatchSizeChoices == 0..3

\* a normalised row: id stands for its columns, extra for the keys that are
\* no column of the table
Row(k) == [id |-> k, extra |-> TRUE]

\* the row lists handed to an insert: rows 1 to n
RowLists == {[k \in 1..n |-> Row(k)] : n \in 0..MaxRows}

\* _prep(r): {k: r.get(k) for k in cols}
Prep(r) == [id |-> r.id]

\* the repository with batch size environment value b and no insert running.
\* table, rows: the insert's arguments; batch_size, i, inserted: its locals;
\* calls: the executemany calls made, as their row lists; result: what it
\* returned or raised; committed, rolledBack: what it did to the transaction;
\* touched: it used the connection (connect, cursor, commit or rollback)
NoInsert(b) ==
    [env |-> b, pc |-> "idle", table |-> "none", rows |-> <<>>, batch_size |-> 0,
     i |-> 0, inserted |-> 0, calls |-> <<>>, result |-> RetNone,
     committed |-> FALSE, rolledBack |-> FALSE, started |-> 0, touched |-> FALSE]

\* an except clause that raises without rolling back
Failed_NoRollback(d) == [d EXCEPT !.pc = "failed", !.result = RetExc("db", 0)]

\* except Exception: self.connection.rollback(); raise
Failed(d) ==
    [d EXCEPT !.pc = "failed", !.rolledBack = TRUE, !.result = RetExc("db", 0)]

\* a chunk that leaves out the last row of the slice
Chunk_DropLast(rows, i, b) ==
    [j \in 1..(Min2(i + b, Len(rows)) - i - 1) |-> Prep(rows[i + j])]

\* chunk = [_prep(r) for r in rows[i:i+batch_size]]
Chunk(rows, i, b) ==
    [j \in 1..(Min2(i + b, Len(rows)) - i) |-> Prep(rows[i + j])]

\* the tables written in batches
BatchedTables == {"clients", "device_status", "switch_interfacedetails"}

\* insert_clients(rows) and the like: no rows returns 0; self.connect()
\* when there is no connection, which may raise;
\* batch_size = int(ARUBA_DB_INSERT_BATCH_SIZE) or len(rows)
Insert_Start ==
    /\ db.pc \in {"idle", "done", "failed"}
    /\ db.started < MaxOps
    /\ \E table \in BatchedTables, rows \in RowLists, connects \in BOOLEAN :
         db' = [NoInsert(db.env) EXCEPT
                  !.started = db.started + 1,
                  !.table = table,
                  !.rows = rows,
                  !.touched = rows # <<>>,
                  !.pc = IF rows = <<>> THEN "done"
                         ELSE IF connects THEN "loop" ELSE "failed",
                  !.batch_size = IF db.env # 0 THEN db.env ELSE Len(rows),
                  !.result = IF rows = <<>> THEN RetOk(NoBody)
                             ELSE IF connects THEN RetNone ELSE RetExc("db", 0)]
    /\ UNCHANGED <<envVars, clientVars, wireVars, now, ret, op, sleepUntil, started,
                   obs, caller>>

\* one turn of for i in range(0, len(rows), batch_size): c.executemany(sql,
\* chunk), which may raise: rollback and raise
Insert_Executemany ==
    /\ db.pc = "loop"
    /\ db.i < Len(db.rows)
    /\ \E ok \in BOOLEAN :
         LET chunk == Chunk(db.rows, db.i, db.batch_size) IN
         db' = IF ok
               THEN [db EXCEPT !.calls = Append(@, chunk),
                               !.inserted = @ + Len(chunk),
                               !.i = @ + db.batch_size]
               ELSE Failed([db EXCEPT !.calls = Append(@, chunk)])
    /\ UNCHANGED <<envVars, clientVars, wireVars, now, ret, op, sleepUntil, started,
                   obs, caller>>

\* self.connection.commit(), which may raise: rollback and raise; return inserted
Insert_Commit ==
    /\ db.pc = "loop"
    /\ db.i >= Len(db.rows)
    /\ \E ok \in BOOLEAN :
         db' = IF ok
               THEN [db EXCEPT !.pc = "done", !.committed = TRUE,
                               !.result = RetOk(NoBody)]
               ELSE Failed(db)
    /\ UNCHANGED <<envVars, clientVars, wireVars, now, ret, op, sleepUntil, started,
                   obs, caller>>

(* ------------------ lambda_handler of the device status ---------------- *)

\* _normalize_event(e): deviceId from id, macAddress from mac; id stands for
\* the row's columns
NormalizeEvent(e) == [id |-> 10 * e.id + e.mac, extra |-> FALSE]

RECURSIVE StatusRows(_)
\* rows = [r for r in rows if r.get("deviceId") or r.get("macAddress")]
StatusRows(events) ==
    IF events = <<>> THEN <<>>
    ELSE (IF Head(events).id # 0 \/ Head(events).mac # 0
          THEN <<NormalizeEvent(Head(events))>> ELSE <<>>)
         \o StatusRows(Tail(events))

\* except Exception as e: return {"statusCode": 500, ...}
ErrorStatus == 500

\* lambda_handler is invoked: raw_events = _fetch_device_status_events()
Handler_Start(t) ==
    /\ caller[t].name = "fetch_device_status" => caller[t].statusCode # 0
    /\ DeviceStatus_Start(t)

\* the fetch ended: what it raised is answered with 500; with no row left
\* the answer is 200; else _db.insert_device_status(rows) starts
Handler_Fetched(t) ==
    /\ caller[t].name = "fetch_device_status"
    /\ caller[t].pc = "done"
    /\ caller[t].statusCode = 0
    /\ LET c == caller[t]
           rows == StatusRows(c.items) IN
       IF c.result.st = "exc"
       THEN /\ caller' = [caller EXCEPT ![t].statusCode = ErrorStatus]
            /\ db' = db
       ELSE IF rows = <<>>
       THEN /\ caller' = [caller EXCEPT ![t].statusCode = 200]
            /\ db' = db
       ELSE /\ caller' = [caller EXCEPT ![t].pc = "insert"]
            /\ \E connects \in BOOLEAN :
                 db' = [NoInsert(db.env) EXCEPT
                          !.started = db.started + 1,
                          !.table = "device_status",
                          !.rows = rows,
                          !.touched = TRUE,
                          !.pc = IF connects THEN "loop" ELSE "failed",
                          !.batch_size = IF db.env # 0 THEN db.env ELSE Len(rows),
                          !.result = IF connects THEN RetNone ELSE RetExc("db", 0)]
    /\ UNCHANGED <<envVars, clientVars, wireVars, now, ret, op, sleepUntil, started,
                   obs>>

\* the insert returned: 200; or raised: 500
Handler_Inserted(t) ==
    /\ caller[t].name = "fetch_device_status"
    /\ caller[t].pc = "insert"
    /\ db.pc \in {"done", "failed"}
    /\ caller' = [caller EXCEPT ![t].pc = "done",
                                ![t].statusCode = IF db.pc = "done" THEN 200
                                                  ELSE ErrorStatus]
    /\ UNCHANGED <<envVars, clientVars, wireVars, now, ret, op, sleepUntil, started,
                   obs, db>>

(* ------------- the handler process: _init, lambda_handler, close ------- *)

\* the lambda modules a process can be loaded from
Handlers == {"clients", "device_status", "aps", "switch_interfaces"}

\* the handlers that return in a finally clause closing the connection
ClosesInFinally == {"clients", "device_status"}

\* invocations of one process
MaxInvocations == 2

\* APs on the list endpoint
MaxAps == 2

\* {}: what _fetch_ap_details returns when the request raised
NoDetails == [radios |-> 0, wlans |-> 0, ports |-> 0, modem |-> FALSE]

\* the details the upstream holds of an AP: its radios, the WLANs under each
\* radio, its ports, its modem
DetailChoices ==
    {NoDetails,
     [radios |-> 1, wlans |-> 1, ports |-> 0, modem |-> FALSE],
     [radios |-> 0, wlans |-> 0, ports |-> 1, modem |-> TRUE],
     [radios |-> 1, wlans |-> 0, ports |-> 1, modem |-> TRUE]}

\* an item of the list endpoint: with or without a serial number
ApChoices ==
    {[serial |-> FALSE, details |-> NoDetails]}
    \cup {[serial |-> TRUE, details |-> d] : d \in DetailChoices}

\* what _fetch_all_aps returns
ApLists == UNION {[1..n -> ApChoices] : n \in 0..MaxAps}

\* the row counts of the batched inserts of one invocation. clients: one
\* insert_clients(client_rows), also of no rows; device status: one insert
\* if rows; switch interfaces: one insert per switch if rows
BatchLists(h) ==
    IF h = "clients" THEN {<<n>> : n \in 0..2}
    ELSE IF h = "device_status" THEN {<<>>} \cup {<<n>> : n \in 1..2}
    ELSE IF h = "switch_interfaces"
    THEN {<<>>} \cup {<<n>> : n \in 1..2} \cup {<<n, 1>> : n \in 1..2}
    ELSE {<<>>}

\* the process before its first invocation. repo: _db is set; connection:
\* its self.connection is open; k: invocations so far; batches, aps, i: the
\* work of the invocation and its position; done: what became of each AP;
\* writes: statements run on the connection by this invocation; onNone:
\* statements it attempted with self.connection None; closed: close() has
\* set self.connection to None and nothing has connected since; statusCode
\* (0: none) and raised: how the invocation ended
NewProc(h, c) ==
    [handler |-> h, close_conn |-> c, repo |-> FALSE, connection |-> FALSE,
     k |-> 0, pc |-> "idle", batches |-> <<>>, aps |-> <<>>, i |-> 0,
     inserted |-> 0, failed |-> 0, done |-> <<>>, writes |-> 0, onNone |-> 0,
     closed |-> FALSE, statusCode |-> 0, raised |-> FALSE]

\* no handler process
NoProc == NewProc("none", TRUE)

\* MySqlRepository.close(): self.connection.close(); self.connection = None
Close(p) == [p EXCEPT !.connection = FALSE, !.closed = @ \/ p.connection]

\* if close_conn and _db: _db.close()
CloseIfAsked(p) == IF p.close_conn /\ p.repo THEN Close(p) ELSE p

\* an exception leaves lambda_handler: clients and device status answer 500
\* from except Exception and close in finally; the AP and the switch
\* handler have no handler around it and raise with the connection as it is
Raise(p) ==
    IF p.handler \in ClosesInFinally
    THEN [CloseIfAsked(p) EXCEPT !.pc = "idle", !.statusCode = ErrorStatus]
    ELSE [p EXCEPT !.pc = "idle", !.raised = TRUE]

\* _init() raised: it runs before the try of every handler
RaiseInit(p) == [p EXCEPT !.pc = "idle", !.raised = TRUE]

\* lambda_handler is invoked: _init(). Only a process without a repository
\* builds one, connects it and ensures the schema; connect or ensure_schema
\* may raise, after _db is set
Lambda_Invoke ==
    /\ proc.handler \in Handlers
    /\ proc.pc = "idle"
    /\ proc.k < MaxInvocations
    /\ LET p == [proc EXCEPT !.k = @ + 1, !.batches = <<>>, !.aps = <<>>,
                             !.i = 0, !.inserted = 0, !.failed = 0,
                             !.done = <<>>, !.writes = 0, !.onNone = 0,
                             !.statusCode = 0, !.raised = FALSE] IN
       IF proc.repo
       THEN proc' = [p EXCEPT !.pc = "fetch"]
       ELSE \E outcome \in {"ok", "connect", "schema"} :
              proc' = IF outcome = "ok"
                      THEN [p EXCEPT !.repo = TRUE, !.connection = TRUE,
                                     !.pc = "fetch"]
                      ELSE RaiseInit([p EXCEPT !.repo = TRUE,
                                               !.connection = outcome = "schema"])
    /\ UNCHANGED <<client_id, client_secret, upstream, page_size, env, urls, caller,
                   db, clientVars, wireVars, now, ret, op, sleepUntil, started,
                   obs>>

\* the handler reads the API: the listing raises, or yields the work of the
\* invocation
Lambda_Fetch ==
    /\ proc.pc = "fetch"
    /\ \/ proc' = Raise(proc)
       \/ /\ proc.handler = "aps"
          /\ \E aps \in ApLists : proc' = [proc EXCEPT !.pc = "write", !.aps = aps]
       \/ /\ proc.handler # "aps"
          /\ \E b \in BatchLists(proc.handler) :
               proc' = [proc EXCEPT !.pc = "write", !.batches = b]
    /\ UNCHANGED <<client_id, client_secret, upstream, page_size, env, urls, caller,
                   db, clientVars, wireVars, now, ret, op, sleepUntil, started,
                   obs>>

\* insert_clients(rows) and the like, of n rows: if not rows: return 0;
\* if not self.connection: self.connect(), which may raise; executemany and
\* commit on the connection, which may raise
BatchedInsert(p, n, connects, ok) ==
    IF n = 0 THEN [p EXCEPT !.batches = Tail(@)]
    ELSE IF ~p.connection /\ ~connects THEN Raise(p)
    ELSE IF ~ok
    THEN Raise([p EXCEPT !.connection = TRUE, !.closed = FALSE, !.writes = @ + 1])
    ELSE [p EXCEPT !.connection = TRUE, !.closed = FALSE, !.writes = @ + 1,
                   !.batches = Tail(@)]

\* the next batched insert of the invocation; the switch handler reads the
\* interfaces of each switch first, which may raise
Lambda_Insert ==
    /\ proc.pc = "write"
    /\ proc.handler # "aps"
    /\ proc.batches # <<>>
    /\ \/ /\ proc.handler = "switch_interfaces"
          /\ proc' = Raise(proc)
       \/ \E connects \in BOOLEAN, ok \in BOOLEAN :
            proc' = BatchedInsert(proc, Head(proc.batches), connects, ok)
    /\ UNCHANGED <<client_id, client_secret, upstream, page_size, env, urls, caller,
                   db, clientVars, wireVars, now, ret, op, sleepUntil, started,
                   obs>>

\* the child rows of an AP in the order the handler inserts them: each radio
\* followed by its WLANs, the ports, the modem
ChildRows(d) ==
    (IF d.radios = 1
     THEN <<"ap_radio">> \o (IF d.wlans = 1 THEN <<"ap_wlan">> ELSE <<>>)
     ELSE <<>>)
    \o (IF d.ports = 1 THEN <<"ap_port">> ELSE <<>>)
    \o (IF d.modem THEN <<"ap_modem">> ELSE <<>>)

\* the tables of the child rows
ChildTables == {"ap_radio", "ap_wlan", "ap_port", "ap_modem"}

\* the statements one AP takes: insert_ap, the four deletes of its child
\* rows, the inserts of the child rows in its details; each commits itself
ApStatements(d) ==
    <<"ap", "delete_ap_radios", "delete_ap_wlans", "delete_ap_ports",
      "delete_ap_modems">> \o ChildRows(d)

\* the most statements one AP takes
MaxStatements == 9

\* a count that forgets the APs that failed
CountAp_FailedLost(p, e) ==
    [p EXCEPT !.i = @ + 1, !.done = Append(@, e),
              !.inserted = IF e.outcome = "inserted" THEN @ + 1 ELSE @]

\* inserted += 1 at the end of the try; failed += 1 in except Exception;
\* continue for an AP without serial
CountAp(p, e) ==
    [p EXCEPT !.i = @ + 1, !.done = Append(@, e),
              !.inserted = IF e.outcome = "inserted" THEN @ + 1 ELSE @,
              !.failed = IF e.outcome = "failed" THEN @ + 1 ELSE @]

\* one turn of for ap in aps: no serial: continue; _fetch_ap_details, which
\* answers {} when the request raised; the statements of the AP on
\* self.connection, with no connect before them: on None the first raises,
\* on a connection the failAt-th may raise (0: none); except Exception
\* counts the AP as failed
Lambda_Ap ==
    /\ proc.pc = "write"
    /\ proc.handler = "aps"
    /\ proc.i < Len(proc.aps)
    /\ LET ap == proc.aps[proc.i + 1] IN
       IF ~ap.serial
       THEN proc' = CountAp(proc, [outcome |-> "skipped", details |-> NoDetails,
                                   written |-> <<>>])
       ELSE \E fetched \in BOOLEAN, failAt \in 0..MaxStatements :
              LET details == IF fetched THEN ap.details ELSE NoDetails
                  s == ApStatements(details) IN
              /\ failAt <= Len(s)
              /\ proc' =
                   IF ~proc.connection
                   THEN CountAp([proc EXCEPT !.onNone = @ + 1],
                                [outcome |-> "failed", details |-> details,
                                 written |-> <<>>])
                   ELSE IF failAt = 0
                   THEN CountAp([proc EXCEPT !.writes = @ + Len(s)],
                                [outcome |-> "inserted", details |-> details,
                                 written |-> s])
                   ELSE CountAp([proc EXCEPT !.writes = @ + failAt],
                                [outcome |-> "failed", details |-> details,
                                 written |-> SubSeq(s, 1, failAt - 1)])
    /\ UNCHANGED <<client_id, client_secret, upstream, page_size, env, urls, caller,
                   db, clientVars, wireVars, now, ret, op, sleepUntil, started,
                   obs>>

\* the work is done. clients, device status, APs: statusCode 200, and
\* _db.close() if close_conn and _db; switch interfaces: db.close() and a
\* result without statusCode
Lambda_Return ==
    /\ proc.pc = "write"
    /\ IF proc.handler = "aps" THEN proc.i >= Len(proc.aps)
       ELSE proc.batches = <<>>
    /\ proc' = IF proc.handler = "switch_interfaces"
               THEN [Close(proc) EXCEPT !.pc = "idle"]
               ELSE [CloseIfAsked(proc) EXCEPT !.pc = "idle", !.statusCode = 200]
    /\ UNCHANGED <<client_id, client_secret, upstream, page_size, env, urls, caller,
                   db, clientVars, wireVars, now, ret, op, sleepUntil, started,
                   obs>>

(* ---------------------------- specification ---------------------------- *)

InitState ==
    /\ client_id \in BOOLEAN
    /\ client_secret = TRUE
    /\ access_token = NoToken
    /\ expires_at = NoTime
    /\ min_interval \in MinIntervalChoices
    /\ last_request_ts = 0
    /\ lock = 0
    /\ now = StartTime
    /\ stack = [t \in Threads |-> <<>>]
    /\ ret = [t \in Threads |-> RetNone]
    /\ op = [t \in Threads |-> IdleOp]
    /\ sleepUntil = [t \in Threads |-> NoTime]
    /\ started = [t \in Threads |-> 0]
    /\ sent = 0
    /\ issued = 0
    /\ lastReq = NoReq
    /\ grant = [n |-> 0, at |-> NoTime, gap |-> 0, mi |-> 0, thread |-> 0]
    /\ miMax = min_interval
    /\ last429 = [thread |-> 0, seq |-> 0, at |-> NoTime, ra |-> "absent",
                  delay |-> 0, attempt |-> 0, miBefore |-> 0, miAfter |-> NoTime,
                  first |-> NoTime, writes |-> 0, count |-> 0,
                  configured |-> min_interval]
    /\ obs = [t \in Threads |-> NoObs]
    /\ caller = [t \in Threads |-> NoCaller]

\* the upstream answers as it likes
InitClient ==
    /\ InitState
    /\ upstream = NoUpstream
    /\ page_size = page_limit
    /\ db = NoInsert(0)
    /\ env = DefaultEnv
    /\ urls = DefaultUrls
    /\ proc = NoProc

Init == InitClient

Transport(t) ==
    \/ Limiter_Acquire(t)
    \/ Limiter_Grant(t)
    \/ Wake(t)
    \/ Http_Ok(t)
    \/ Http_401_Reauth(t)
    \/ Http_Fatal(t)
    \/ Http_429(t)
    \/ Inflate_Read(t)
    \/ Inflate_Write(t)
    \/ Http_5xx(t)
    \/ Net_Fail(t)
    \/ Reauth_Return(t)
    \/ Retry_Return(t)
    \/ Auth_Start(t)
    \/ Auth_Primary(t)
    \/ Auth_Basic(t)

GetOp(t) ==
    \/ Get_Start(t)
    \/ Get_Ensure(t)
    \/ Get_Ensured(t)
    \/ Get_Request(t)
    \/ Get_Return(t)

CollectOp(t) ==
    \/ ListSites_Start(t)
    \/ ListClients_Start(t)
    \/ Collect_First(t)
    \/ Collect_FirstReturn(t)
    \/ Collect_Loop(t)
    \/ Collect_PageReturn(t)

DevicesOp(t) ==
    \/ ListDevices_Start(t)
    \/ Devices_Request(t)
    \/ Devices_Return(t)

\* one caller thread using get()
Next == Idle \/ Transport(1) \/ GetOp(1)

Spec == Init /\ [][Next]_vars

\* the requests of a listing that the upstream answers with 2xx or a fatal
\* status
PageTransport(t) ==
    \/ Limiter_Acquire(t)
    \/ Limiter_Grant(t)
    \/ Wake(t)
    \/ Http_Ok(t)
    \/ Http_Fatal(t)

InitPage ==
    /\ InitClient
    /\ min_interval = Sec \div 2

\* one caller thread using the listings
NextPage == Idle \/ PageTransport(1) \/ CollectOp(1) \/ DevicesOp(1)

SpecPage == InitPage /\ [][NextPage]_vars

\* list_sites called again and again against a stable upstream
StableTransport(t) ==
    \/ Limiter_Acquire(t)
    \/ Limiter_Grant(t)
    \/ Wake(t)
    \/ Http_Stable(t)

SitesOp(t) ==
    \/ ListSites_Start(t)
    \/ Collect_First(t)
    \/ Collect_FirstReturn(t)
    \/ Collect_Loop(t)
    \/ Collect_PageReturn(t)

InitStable ==
    /\ InitState
    /\ client_id = TRUE
    /\ min_interval \in {0, Sec \div 2}
    /\ upstream \in StableUpstreams
    /\ page_size = page_limit
    /\ db = NoInsert(0)
    /\ env = DefaultEnv
    /\ urls = DefaultUrls
    /\ proc = NoProc

NextStable == Idle \/ StableTransport(1) \/ SitesOp(1)

SpecStable == InitStable /\ [][NextStable]_vars

\* list_sites against an upstream serving bodies of every shape
InitFields ==
    /\ InitState
    /\ client_id = TRUE
    /\ min_interval \in {0, Sec \div 2}
    /\ upstream \in FieldUpstreams
    /\ page_size = page_limit
    /\ db = NoInsert(0)
    /\ env = DefaultEnv
    /\ urls = DefaultUrls
    /\ proc = NoProc

SpecFields == InitFields /\ [][NextStable]_vars

\* the repository's inserts, for every batch size setting
InitDb ==
    /\ InitState
    /\ client_id = TRUE
    /\ min_interval = Sec \div 2
    /\ upstream = NoUpstream
    /\ page_size = page_limit
    /\ \E b \in BatchSizeChoices : db = NoInsert(b)
    /\ env = DefaultEnv
    /\ urls = DefaultUrls
    /\ proc = NoProc

NextDb == Insert_Start \/ Insert_Executemany \/ Insert_Commit

SpecDb == InitDb /\ [][NextDb]_vars

\* the functions that call the client, with a static bearer, against an
\* upstream that answers with 2xx or a fatal status
CallerTransport(t) ==
    \/ Limiter_Acquire(t)
    \/ Limiter_Grant(t)
    \/ Wake(t)
    \/ Auth_Start(t)
    \/ Http_Ok(t)
    \/ Http_Fatal(t)

CallerOp(t) ==
    \/ SwitchInterfaces_Start(t)
    \/ SwitchInterfaces_Get(t)
    \/ SwitchInterfaces_Return(t)
    \/ AllClients_Start(t)
    \/ AllClients_ListSites(t)
    \/ AllClients_SitesReturn(t)
    \/ AllClients_NextSite(t)
    \/ AllClients_ListClients(t)
    \/ AllClients_ClientsReturn(t)
    \/ DeviceStatus_Start(t)
    \/ DeviceStatus_ListDevices(t)
    \/ DeviceStatus_DevicesReturn(t)

InitCallers ==
    /\ InitClient
    /\ client_id = FALSE
    /\ min_interval = Sec \div 2

\* the steps of the operations once a caller has started them
CalledOp(t) ==
    \/ Get_Ensure(t)
    \/ Get_Ensured(t)
    \/ Get_Request(t)
    \/ Get_Return(t)
    \/ Collect_First(t)
    \/ Collect_FirstReturn(t)
    \/ Collect_Loop(t)
    \/ Collect_PageReturn(t)
    \/ Devices_Request(t)
    \/ Devices_Return(t)

NextCallers == CallerTransport(1) \/ CallerOp(1) \/ CalledOp(1)

SpecCallers == InitCallers /\ [][NextCallers]_vars

\* the construction of a client, for every base URL, configured token URL
\* and environment value
InitUrls ==
    /\ InitState
    /\ client_id = TRUE
    /\ min_interval = Sec \div 2
    /\ upstream = NoUpstream
    /\ page_size = page_limit
    /\ db = NoInsert(0)
    /\ env = DefaultEnv
    /\ \E b \in BaseUrls, u \in ExplicitTokenUrls, e \in EnvTokenUrls :
          urls = Unbuilt(b, u, e)
    /\ proc = NoProc

\* ArubaApiClient.__init__
Client_Init ==
    /\ ~urls.built
    /\ urls' = Built(urls)
    /\ UNCHANGED <<client_id, client_secret, upstream, page_size, env, caller, db,
                   proc, clientVars, wireVars, now, ret, op, sleepUntil, started,
                   obs>>

NextUrls == Client_Init

SpecUrls == InitUrls /\ [][NextUrls]_vars

\* a process of each handler, invoked repeatedly, for either value of
\* DB_CLOSE_EACH_INVOCATION
InitProcess ==
    /\ InitState
    /\ client_id = TRUE
    /\ min_interval = Sec \div 2
    /\ upstream = NoUpstream
    /\ page_size = page_limit
    /\ db = NoInsert(0)
    /\ env = DefaultEnv
    /\ urls = DefaultUrls
    /\ \E h \in Handlers, c \in BOOLEAN : proc = NewProc(h, c)

NextProcess ==
    Lambda_Invoke \/ Lambda_Fetch \/ Lambda_Insert \/ Lambda_Ap \/ Lambda_Return

SpecProcess == InitProcess /\ [][NextProcess]_vars

\* the device status process with the v2 endpoint enabled, for either value
\* of the fallback flag, with client credentials or a static bearer
StatusEnvs == {[use_v2 |-> TRUE, fallback |-> f] : f \in BOOLEAN}

InitStatus ==
    /\ InitState
    /\ min_interval = Sec \div 2
    /\ upstream = NoUpstream
    /\ page_size = page_limit
    /\ db = NoInsert(0)
    /\ env \in StatusEnvs
    /\ urls = DefaultUrls
    /\ proc = NoProc

StatusTransport(t) ==
    \/ Limiter_Acquire(t)
    \/ Limiter_Grant(t)
    \/ Wake(t)
    \/ Auth_Start(t)
    \/ Auth_Primary(t)
    \/ Auth_Basic(t)
    \/ Http_Ok(t)
    \/ Http_401_Reauth(t)
    \/ Http_Fatal(t)
    \/ Reauth_Return(t)
    \/ Retry_Return(t)

StatusOp(t) ==
    \/ Handler_Start(t)
    \/ DeviceStatus_V2(t)
    \/ V2_Ensure(t)
    \/ V2_Ensured(t)
    \/ V2_Request(t)
    \/ V2_Return(t)
    \/ DeviceStatus_V2Return(t)
    \/ DeviceStatus_Fallback(t)
    \/ Devices_Request(t)
    \/ Devices_Return(t)
    \/ DeviceStatus_FallbackReturn(t)
    \/ Handler_Fetched(t)
    \/ Handler_Inserted(t)

StatusDb == Insert_Executemany \/ Insert_Commit

NextStatus == StatusTransport(1) \/ StatusOp(1) \/ StatusDb

SpecStatus == InitStatus /\ [][NextStatus]_vars

\* the AP ingestion process: _fetch_all_aps called again and again, with
\* ARUBA_PAGE_SIZE at the model's page size or at 200
PageSizeChoices == {page_limit, 200}

ApUpstreams ==
    [{NoNext} \cup Cursors ->
       {PageBody("aps", Window(1, 2), n) : n \in Cursors \cup {NoNext}}]

ApsOp(t) ==
    \/ FetchAllAps_Start(t)
    \/ Collect_First(t)
    \/ Collect_FirstReturn(t)
    \/ Collect_Loop(t)
    \/ Collect_PageReturn(t)

InitAps ==
    /\ InitState
    /\ client_id = TRUE
    /\ min_interval = Sec \div 2
    /\ upstream \in ApUpstreams
    /\ page_size \in PageSizeChoices
    /\ db = NoInsert(0)
    /\ env = DefaultEnv
    /\ urls = DefaultUrls
    /\ proc = NoProc

NextAps == Idle \/ StableTransport(1) \/ ApsOp(1)

SpecAps == InitAps /\ [][NextAps]_vars

\* the requests of concurrent callers that the upstream answers with 2xx, 429
\* or a 401 naming the token
ConcTransport(t) ==
    \/ Limiter_Acquire(t)
    \/ Limiter_Grant(t)
    \/ Wake(t)
    \/ Http_Ok(t)
    \/ Http_429_Now(t)
    \/ Inflate_Read(t)
    \/ Inflate_Write(t)
    \/ Http_401_Reauth(t)
    \/ Reauth_Return(t)
    \/ Retry_Return(t)
    \/ Auth_Start(t)

\* os.getenv("ARUBA_MIN_REQUEST_INTERVAL_SEC", "0.5"): the default
DefaultMinInterval == Sec \div 2

\* a static bearer token and the default request interval
InitConc ==
    /\ InitClient
    /\ client_id = FALSE
    /\ min_interval = DefaultMinInterval

\* a worker thread calls get() once
Worker_Start(t) ==
    /\ started[t] = 0
    /\ Get_Start(t)

WorkerOp(t) ==
    \/ Worker_Start(t)
    \/ Get_Ensure(t)
    \/ Get_Ensured(t)
    \/ Get_Request(t)
    \/ Get_Return(t)

\* two worker threads sharing the client
NextConc == \E t \in Threads : ConcTransport(t) \/ WorkerOp(t)

SpecConc == InitConc /\ [][NextConc]_vars

\* the requests of concurrent callers that the upstream answers with 2xx or
\* a 401 naming the token, or that fail on the network
LimiterTransport(t) ==
    \/ Limiter_Acquire(t)
    \/ Limiter_Grant(t)
    \/ Wake(t)
    \/ Http_Ok(t)
    \/ Net_Fail(t)
    \/ Http_401_Reauth(t)
    \/ Reauth_Return(t)
    \/ Retry_Return(t)
    \/ Auth_Start(t)

NextLimiter == \E t \in Threads : LimiterTransport(t) \/ WorkerOp(t)

\* two worker threads sharing the client, with sleeps that end, a thread
\* inside the lock that goes on, and a lock that a thread waiting for it gets
\* once it is free often enough
SpecLimiter ==
    /\ InitConc
    /\ [][NextLimiter]_vars
    /\ \A t \in Threads :
          /\ WF_vars(Wake(t))
          /\ WF_vars(Limiter_Grant(t))
          /\ SF_vars(Limiter_Acquire(t))

\* a request interval configured at or below the 5 second ceiling
InitThrottle ==
    /\ InitClient
    /\ min_interval \in {Sec \div 2, 4 * Sec}

SpecThrottle == InitThrottle /\ [][Next]_vars

(* ================================ claims =============================== *)

Limit == Min2(page_limit, 100)

\* C1 (as claimed): offset-mode termination. When the first response of the
\* collector carries no `next`, the collector goes on requesting pages and
\* returns only after a page shorter than the limit (or empty), or after
\* max_pages_per_call pages.
C1_OffsetModeTermination ==
    \A t \in Threads :
        ( /\ op[t].name \in CollectOps
          /\ op[t].pc = "done"
          /\ op[t].result.st = "ok"
          /\ op[t].page >= 1
          /\ op[t].firstNext = NoNext )
        => (op[t].lastLen < Limit \/ op[t].page >= max_pages_per_call)

\* a page request of a listing is outstanding that follows a response of the
\* same call which carried a non-empty `next`
FollowsCursor(t) ==
    /\ op[t].name \in CollectOps \cup {"list_devices"}
    /\ op[t].pc = "page_wait"
    /\ op[t].requested >= 2
    /\ op[t].prevNext # NoNext

\* C2: cursor-mode correctness. In the collector and in list_devices, the page
\* request that follows a response with a non-empty `next` carries exactly that
\* token as `next`, no `limit` and no `offset`, and no site parameter other
\* than the one of the original call.
C2_CursorRequest ==
    \A t \in Threads :
        FollowsCursor(t) =>
            /\ op[t].params.next = op[t].prevNext
            /\ op[t].params.limit = 0
            /\ op[t].params.offset = 0 - 1
            /\ op[t].params.site \in {"none", SiteParam(op[t].name, op[t].variant)}
            /\ (stack[t] = <<>> /\ ret[t].st # "none")
                 => /\ lastReq.kind = "resource"
                    /\ lastReq.params.next = op[t].prevNext
                    /\ lastReq.params.limit = 0

\* C2 witness: the second request of a list_clients call is in flight, after a
\* first page (requested with a limit) that returned cursor 2
C2_Witness ==
    /\ FollowsCursor(1)
    /\ op[1].name = "list_clients"
    /\ op[1].prevNext = 2
    /\ lastReq.kind = "resource"
    /\ lastReq.params.next = 2
    /\ lastReq.params.site = "site-id"

\* the outermost _do_request of thread t is a resource request
LogicalResourceRequest(t) ==
    \E i \in DOMAIN stack[t] :
        /\ stack[t][i].fn = "req"
        /\ stack[t][i].kind = "resource"
        /\ \A j \in 1..(i - 1) : stack[t][j].fn # "req"

\* C3 (as claimed): one logical resource request triggers at most one
\* re-authentication (token invalidation plus _authenticate), whatever the
\* responses.
C3_OneReauthPerRequest ==
    \A t \in Threads : LogicalResourceRequest(t) => obs[t].reauths <= 1

\* C4 (as claimed): every resource request carries a bearer token obtained
\* from the token manager, never an absent one.
C4_ResourceRequestHasToken ==
    lastReq.kind = "resource" => lastReq.tok # NoToken

AuthDepth(t) == Cardinality({i \in DOMAIN stack[t] : stack[t][i].fn = "auth"})

\* C5 (as claimed): a failed token request never triggers a nested
\* re-authentication: _authenticate is never entered while _authenticate is
\* already running on the same thread.
C5_NoNestedAuthentication ==
    \A t \in Threads : AuthDepth(t) <= 1

\* C6 (as claimed): min_interval never drops below a value it held earlier.
C6_MinIntervalMonotone == min_interval >= miMax

NumericRetryAfter(ra) == ra \in {"0", "3"}

\* the next physical attempt after a 429 with a numeric Retry-After is made
\* no earlier than Retry-After seconds after that response
WaitedRetryAfter ==
    (NumericRetryAfter(last429.ra) /\ last429.seq > 0 /\ sent > last429.seq)
        => lastReq.at >= last429.at + RetryAfterTicks(last429.ra)

\* C7 (as claimed): a 429 with numeric Retry-After n makes the client wait at
\* least n seconds before its next attempt and leaves min_interval strictly
\* greater than before.
C7_Original ==
    /\ WaitedRetryAfter
    /\ (NumericRetryAfter(last429.ra) /\ last429.miAfter # NoTime)
           => last429.miAfter > last429.miBefore

\* C7 (amended): a 429 with numeric Retry-After n makes the client wait at
\* least n seconds before its next attempt, and sets min_interval to
\* min(1.25 * old, 5 s): strictly greater than before exactly when
\* 0 < old < 5 s, and from the first inflation on min_interval never falls
\* below the value that inflation gave it.
C7_RetryAfterAndInflation ==
    /\ WaitedRetryAfter
    /\ (NumericRetryAfter(last429.ra) /\ last429.miAfter # NoTime)
           => /\ last429.miAfter * 4 = Min2(last429.miBefore * 5, 5 * Sec * 4)
              /\ (last429.miAfter > last429.miBefore
                    <=> (0 < last429.miBefore /\ last429.miBefore < 5 * Sec))
    /\ last429.first # NoTime => min_interval >= last429.first

\* C7 witness: a 429 with Retry-After: 3 was answered at the 5 s ceiling, the
\* interval stayed there, and the next attempt has been made
C7_Witness ==
    /\ last429.ra = "3"
    /\ last429.miBefore = 5 * Sec
    /\ last429.miAfter = 5 * Sec
    /\ sent > last429.seq
    /\ lastReq.at >= last429.at + 3 * Sec

\* what the specification asks of _ensure_token, in terms of what it saw
MustAuthenticate(e) == e.tok = NoToken \/ e.left <= 300 * Sec

\* C8 (as claimed): with buffer 300 a token expiring in 400 seconds triggers
\* a fresh authentication.
C8_Original ==
    \A t \in Threads :
        (obs[t].ensure.done /\ obs[t].ensure.tok # NoToken
            /\ obs[t].ensure.left = 400 * Sec) => obs[t].ensure.authed

\* C8 (amended): _ensure_token authenticates if and only if no token is
\* cached or now + buffer >= expires_at; with buffer 300, tokens expiring in
\* 400 and in 600 seconds are both returned unchanged, without authentication.
C8_AuthenticatesIffStale ==
    \A t \in Threads :
        obs[t].ensure.done =>
            /\ obs[t].ensure.authed <=> MustAuthenticate(obs[t].ensure)
            /\ (obs[t].ensure.tok # NoToken
                  /\ obs[t].ensure.left \in {400 * Sec, 600 * Sec})
                 => (~obs[t].ensure.authed /\ obs[t].ensure.handed)

\* C8 witness: _ensure_token found a token expiring in exactly 400 seconds
\* and returned it without authenticating
C8_Witness ==
    /\ obs[1].ensure.done
    /\ obs[1].ensure.tok # NoToken
    /\ obs[1].ensure.left = 400 * Sec
    /\ ~obs[1].ensure.authed
    /\ op[1].pc = "build"

\* C9 (as claimed): whenever _ensure_token returns, now + buffer < expires_at.
C9_Original ==
    \A t \in Threads :
        obs[t].ensure.handed => obs[t].ensure.leftAtHandoff > 300 * Sec

\* C9 (amended): whenever _ensure_token returns, either now + buffer <
\* expires_at, or the token was obtained by an authentication made in that
\* very call (the endpoint issued a lifetime of at most the buffer).
C9_HandoffFreshOrJustIssued ==
    \A t \in Threads :
        obs[t].ensure.handed =>
            \/ obs[t].ensure.leftAtHandoff > 300 * Sec
            \/ obs[t].ensure.authed

\* C9 witness: _ensure_token returned a token it had just obtained, issued
\* with expires_in = 60
C9_Witness ==
    /\ obs[1].ensure.handed
    /\ obs[1].ensure.authed
    /\ obs[1].ensure.leftAtHandoff = 60 * Sec

\* C10 (as claimed): any two consecutively granted slots are separated by at
\* least the min_interval in force when the later slot is granted.
C10_SlotSpacing == grant.n >= 1 => grant.gap >= grant.mi

\* n inflations in a row
RECURSIVE InflateN(_, _)
InflateN(mi, n) == IF n = 0 THEN mi ELSE InflateN(Inflate(mi), n - 1)

\* C11 (as claimed): concurrent callers serialize every access to the token
\* and to min_interval: no request is built from a token that another thread
\* has cleared and not yet replaced, and no inflation of min_interval is lost
\* (after n completed inflations min_interval is the n-fold inflation of its
\* configured value).
C11_SerializedTokenAndBackoff ==
    /\ \A t \in Threads : \A i \in DOMAIN stack[t] :
           (stack[t][i].fn = "req" /\ stack[t][i].kind = "resource")
               => stack[t][i].tok # NoToken
    /\ min_interval = InflateN(DefaultMinInterval, last429.writes)

\* C12 (as claimed): after a 401-triggered re-authentication the request is
\* retried exactly once: the logical call sends exactly one further physical
\* request (two in all), whatever the answer to the retried request.
C12_RetriedExactlyOnce ==
    \A t \in Threads :
        (op[t].name = "get" /\ obs[t].reauths >= 1) => obs[t].requests <= 2

\* the outermost _do_request of get() has returned or raised to _get_json on
\* thread t, and no 401 recovery took place in it
LogicalRequestOver(t) ==
    /\ op[t].name = "get"
    /\ op[t].pc = "await"
    /\ stack[t] = <<>>
    /\ ret[t].st # "none"
    /\ obs[t].reauths = 0

\* an exception of the transient classes: URLError, or HTTPError 429/5xx
TransientError(r) ==
    /\ r.st = "exc"
    /\ r.exc = "url" \/ (r.exc = "http" /\ r.status \in RetriableStatuses)

\* C13: a logical request answered only by 429, 5xx or connection failures
\* makes physical attempts until one succeeds (it then returns that body) or
\* until exactly max_retries attempts have been made (it then raises the last
\* observed error); a 5xx or a connection failure leaves min_interval as it
\* was.
C13_TransientRetriesBounded ==
    /\ \A t \in Threads :
          LogicalRequestOver(t) =>
            /\ obs[t].requests \in 1..max_retries
            /\ ret[t].st = "ok" => lastReq.resp = "ok"
            /\ TransientError(ret[t]) =>
                  /\ obs[t].requests = max_retries
                  /\ lastReq.attempt = max_retries
                  /\ ret[t].exc = "url" <=> lastReq.resp = "net"
                  /\ ret[t].exc = "http" =>
                        /\ lastReq.resp \in {"429", "5xx"}
                        /\ ret[t].status = lastReq.status
    /\ lastReq.resp \in {"5xx", "net"} => min_interval = lastReq.mi

\* C13 witness: three attempts were made, the last one failed to connect and
\* its URLError is raised
C13_Witness ==
    /\ LogicalRequestOver(1)
    /\ ret[1].exc = "url"
    /\ obs[1].requests = max_retries
    /\ lastReq.resp = "net"

\* the last request sent was a resource request of get() on thread t, answered
\* by an HTTP error status that is neither retriable nor a first-attempt 401
\* naming the token, and the get() that sent it has not yet finished
FatalAnswered(t) ==
    /\ lastReq.thread = t
    /\ lastReq.kind = "resource"
    /\ lastReq.status \in {401, 404}
    /\ ~(lastReq.status = 401 /\ lastReq.attempt = 1 /\ lastReq.matches)
    /\ op[t].name = "get"
    /\ op[t].pc = "await"
    /\ obs[t].requests >= 1

\* C14: an HTTP error status outside {429, 500, 502, 503, 504} that is not a
\* first-attempt 401 naming the token is fatal: the call raises at once, with
\* no sleep, no further physical attempt, no re-authentication and no change
\* to min_interval or to the cached token.
C14_FatalStatusRaisesAtOnce ==
    \A t \in Threads :
        FatalAnswered(t) =>
            /\ ret[t].st = "exc"
            /\ sleepUntil[t] = NoTime
            /\ \A i \in DOMAIN stack[t] :
                   stack[t][i].fn = "req" /\ stack[t][i].pc = "retry"
            /\ min_interval = lastReq.mi
            /\ access_token = lastReq.cached
            /\ expires_at = lastReq.expiry

\* C14 witness: a 401 naming the token, received on the second attempt (after
\* a transient failure), has been raised
C14_Witness ==
    /\ FatalAnswered(1)
    /\ lastReq.status = 401
    /\ lastReq.matches
    /\ lastReq.attempt = 2
    /\ ~lastReq.rebuilt
    /\ ret[1].st = "exc"
    /\ stack[1] = <<>>

\* thread t has received the last 429 and has not yet gone past the sleep
\* that follows it
After429(t) ==
    /\ last429.thread = t
    /\ stack[t] # <<>>
    /\ Top(t).fn = "req"
    /\ Top(t).pc = "inflate"

\* the sleep of thread t after the last 429 lasts d: the thread sleeps until
\* d after the response, or has woken exactly then (at once when d is 0)
Sleeps429(t, d) ==
    IF sleepUntil[t] # NoTime
    THEN d > 0 /\ sleepUntil[t] = last429.at + d
    ELSE now = last429.at + d

ExponentialDelay ==
    Min2((2 ^ (last429.attempt - 1)) * last429.miBefore * 2, max_backoff)

\* C15 (as claimed): on a 429 the sleep is the Retry-After value when the
\* header is present and numeric, and otherwise (absent or not parseable)
\* min(2^(attempt-1) * min_interval * 2, max_backoff), with the min_interval
\* in force before the inflation.
C15_Original ==
    \A t \in Threads :
        After429(t) =>
            Sleeps429(t, IF NumericRetryAfter(last429.ra)
                         THEN RetryAfterTicks(last429.ra)
                         ELSE ExponentialDelay)

\* C15 (amended): on a 429 the sleep is the Retry-After value when the header
\* is present and numeric, 5 seconds when it is present but not parseable, and
\* min(2^(attempt-1) * min_interval * 2, max_backoff) when it is absent, with
\* the min_interval in force before the inflation.
C15_SleepAfter429 ==
    \A t \in Threads :
        After429(t) =>
            /\ last429.miBefore = min_interval
            /\ Sleeps429(t, CASE NumericRetryAfter(last429.ra) ->
                                    RetryAfterTicks(last429.ra)
                               [] last429.ra = "bad" -> 5 * Sec
                               [] OTHER -> ExponentialDelay)

\* C15 witness: a 429 whose Retry-After does not parse is followed by a sleep
\* of 5 seconds
C15_Witness ==
    /\ After429(1)
    /\ last429.ra = "bad"
    /\ sleepUntil[1] = last429.at + 5 * Sec

\* a 429 has been received whose inflation has not been written yet
InflationPending ==
    \E t \in Threads : \E i \in DOMAIN stack[t] :
        stack[t][i].fn = "req" /\ stack[t][i].pc \in {"inflate", "inflate_w"}

\* mi after n steps of "times 1.25, at most 5 seconds"
RECURSIVE TimesFiveQuartersCapped(_, _)
TimesFiveQuartersCapped(mi, n) ==
    IF n = 0 THEN mi
    ELSE TimesFiveQuartersCapped(
             IF 5 * mi <= 20 * Sec THEN (5 * mi) \div 4 ELSE 5 * Sec, n - 1)

\* C16: every observed 429 (on any attempt, the last permitted one and those
\* of the token endpoint included) inflates exactly once, min_interval
\* becoming min(min_interval * 1.25, 5 seconds), and nothing else changes
\* min_interval: after k 429s it is the configured value inflated k times
\* (k - 1 times while the inflation of the last 429 is still to be written).
C16_InflatedOncePer429 ==
    /\ last429.writes = last429.count - (IF InflationPending THEN 1 ELSE 0)
    /\ min_interval = TimesFiveQuartersCapped(last429.configured, last429.writes)

\* C16 witness: three 429s in a row, the last on the last permitted attempt
\* and raised, have inflated the default interval three times
C16_Witness ==
    /\ last429.count = 3
    /\ last429.attempt = max_retries
    /\ ret[1].st = "exc"
    /\ ret[1].status = 429
    /\ last429.configured = DefaultMinInterval
    /\ min_interval * 64 = DefaultMinInterval * 125

Listings == CollectOps \cup {"list_devices"}

\* a page request other than the first of its call is outstanding
FollowsPage(t) ==
    /\ op[t].name \in Listings
    /\ op[t].pc = "page_wait"
    /\ op[t].requested >= 2

\* C17 (as claimed): a call of the collector or of list_devices makes at most
\* max_pages_per_call page requests, and makes no further request once a page
\* came without `next` or with an empty item array.
C17_Original ==
    \A t \in Threads :
        /\ op[t].name \in Listings => op[t].requested <= max_pages_per_call
        /\ FollowsPage(t) => (op[t].prevNext # NoNext /\ op[t].lastLen > 0)

\* C17 (amended): a call of the collector or of list_devices makes at most
\* max_pages_per_call page requests, and makes no further request once a page
\* came without `next`, or with an empty item array - except that the
\* collector follows the `next` of its first page even when that page is
\* empty.
C17_PageCeilingAndStop ==
    \A t \in Threads :
        /\ op[t].name \in Listings => op[t].requested <= max_pages_per_call
        /\ FollowsPage(t) =>
              /\ op[t].prevNext # NoNext
              /\ op[t].lastLen > 0
                   \/ (op[t].name \in CollectOps /\ op[t].requested = 2)

\* C17 witness: list_sites has returned after max_pages_per_call requests,
\* every page of which carried items and the same non-empty `next`
C17_Witness ==
    /\ op[1].name = "list_sites"
    /\ op[1].pc = "done"
    /\ op[1].result.st = "ok"
    /\ op[1].requested = max_pages_per_call
    /\ op[1].firstNext = 1
    /\ op[1].prevNext = 1
    /\ op[1].lastLen > 0

\* the i-th record of raw is the first of its key, or has no key
FirstOfKey(raw, i) ==
    \/ DedupKey(raw[i]) = 0
    \/ \A j \in 1..(i - 1) : DedupKey(raw[j]) # DedupKey(raw[i])

\* raw from its i-th record on, without the records whose key came earlier
RECURSIVE FirstOccurrences(_, _)
FirstOccurrences(raw, i) ==
    IF i > Len(raw) THEN <<>>
    ELSE (IF FirstOfKey(raw, i) THEN <<raw[i]>> ELSE <<>>)
             \o FirstOccurrences(raw, i + 1)

\* C18: deduplication in list_devices. Whatever the pages, the collected
\* sequence holds each dedup key at most once, the record kept being the
\* first of that key in page order; records without key are all kept; and
\* for each page, added + duplicates is the page's item count.
C18_Deduplication ==
    \A t \in Threads :
        op[t].name = "list_devices" =>
            LET c == op[t].collected IN
            /\ \A i, j \in DOMAIN c :
                   (i < j /\ DedupKey(c[i]) # 0) => DedupKey(c[i]) # DedupKey(c[j])
            /\ c = FirstOccurrences(op[t].raw, 1)
            /\ op[t].added + op[t].dups = op[t].lastLen

\* C18 witness: two identical pages, each holding a record with a key and a
\* record without; the second page adds one record and drops one
C18_Witness ==
    /\ op[1].name = "list_devices"
    /\ op[1].pc = "done"
    /\ op[1].raw = <<Items[3], Items[4], Items[3], Items[4]>>
    /\ op[1].collected = <<Items[3], Items[4], Items[4]>>
    /\ op[1].added = 1
    /\ op[1].dups = 1

\* C19: the collector never drops or reorders items. What it has collected,
\* and what it returns, is the in-order concatenation of the item arrays of
\* the pages it consumed, duplicates across pages included, also when the
\* annotate callback raises on some items.
C19_CollectKeepsAllItems ==
    \A t \in Threads :
        op[t].name \in CollectOps => op[t].collected = op[t].raw

\* C19 witness: list_clients_single_site has returned two identical pages of
\* two records each, as four records
C19_Witness ==
    /\ op[1].name = "list_clients"
    /\ op[1].pc = "done"
    /\ op[1].requested = 2
    /\ op[1].raw = <<Items[1], Items[2], Items[1], Items[2]>>
    /\ op[1].collected = <<Items[1], Items[2], Items[1], Items[2]>>

\* thread t has ended a list_sites call that followed another one on the
\* same client
CalledTwice(t) ==
    /\ op[t].name = "list_sites"
    /\ op[t].pc = "done"
    /\ obs[t].prev.name = "list_sites"

RECURSIVE FirstListUnder(_, _, _)
\* the value of the first key of keys, from the i-th on, under which js holds
\* a list, as a one-element sequence; <<>> when there is none
FirstListUnder(js, keys, i) ==
    IF i > Len(keys) THEN <<>>
    ELSE IF \E a \in DOMAIN js.arrays : js.arrays[a].key = keys[i]
    THEN <<(CHOOSE a \in DOMAIN js.arrays : js.arrays[a].key = keys[i])>>
    ELSE FirstListUnder(js, keys, i + 1)

\* the item array by the stated priority: root keys in order, else the first
\* list-valued field, else the body when it is a list, else empty
ItemsByPriority(js, keys) ==
    IF js.kind = "dict"
    THEN IF FirstListUnder(js, keys, 1) # <<>>
         THEN js.arrays[FirstListUnder(js, keys, 1)[1]].val
         ELSE IF js.arrays # <<>> THEN js.arrays[1].val ELSE <<>>
    ELSE IF js.kind = "list" THEN js.arrays[1].val ELSE <<>>

\* thread t has read the first page of a list_sites call
FirstPageRead(t) ==
    /\ op[t].name = "list_sites"
    /\ op[t].pc \in {"loop", "done"}
    /\ op[t].requested = 1
    /\ upstream[NoNext].kind \in {"dict", "list"}

\* C21: the item array of a page is the value of the first root key, in the
\* order given, that holds a list; only if none does, the first list-valued
\* field; only if none, the body itself when it is a list; otherwise empty
C21_ExtractionPriority ==
    \A t \in Threads :
      FirstPageRead(t) =>
        op[t].raw = ItemsByPriority(upstream[NoNext], RootKeys("list_sites"))

\* the last request sent is a page request of a collector call
CollectorRequest ==
    /\ lastReq.kind = "resource"
    /\ op[lastReq.thread].name \in CollectOps

\* C22: the limit of the first page request of the collector is
\* min(pageSize, 100), and no request of the collector carries a limit above
\* 100, whatever page size is configured and whatever params the caller passes
C22_LimitCapped ==
    CollectorRequest =>
      /\ lastReq.params.limit <= 100
      /\ lastReq.params.next = NoNext => lastReq.params.limit = Min2(page_size, 100)

\* the listing of thread t has ended on a page that does not parse
EndedOnMalformed(t) ==
    /\ op[t].name \in Listings
    /\ op[t].pc = "done"
    /\ lastReq.thread = t
    /\ lastReq.kind = "resource"
    /\ lastReq.body = "malformed"

\* the items of the pages read before: as served for the collector, without
\* the repeated keys for list_devices
AccumulatedBefore(t) ==
    IF op[t].name = "list_devices" THEN FirstOccurrences(op[t].raw, 1)
    ELSE op[t].raw

\* C23: a page that is not JSON never raises out of the collector or of
\* list_devices: it ends pagination, and the call returns exactly the items
\* accumulated from the pages before it (none when it is the first page)
C23_MalformedPageEndsQuietly ==
    \A t \in Threads :
      EndedOnMalformed(t) =>
        /\ op[t].result.st = "ok"
        /\ op[t].collected = AccumulatedBefore(t)
        /\ op[t].requested = 1 => op[t].collected = <<>>

\* C23 witness: the second page of a list_sites call does not parse, and the
\* call returns the two records of the first page
C23_Witness ==
    /\ EndedOnMalformed(1)
    /\ op[1].name = "list_sites"
    /\ op[1].requested = 2
    /\ op[1].result.st = "ok"
    /\ op[1].collected = <<Items[1], Items[2]>>

\* the caller of thread t has ended after an operation it called raised and
\* was not tried again
CouldNotComplete(t) ==
    /\ caller[t].pc = "done"
    /\ caller[t].gaveUp

\* C24: a listing that cannot complete because of a fatal or retry-exhausted
\* failure raises to its caller; it never returns an empty collection as if
\* the upstream had no data (list_all_clients, get_switch_interfaces, the
\* device-status fetch)
C24_FailureSurfaces ==
    \A t \in Threads :
      CouldNotComplete(t) => caller[t].result.st = "exc"

\* C25: static bearer mode. With no client id, no request ever goes to the
\* token endpoint; the bearer token is the client secret, installed with a
\* lifetime of two hours; and the re-authentication after a 401 installs the
\* same value again, which the retried request carries
C25_StaticBearer ==
    ~client_id =>
      /\ issued = 0
      /\ lastReq.kind # "token"
      /\ \A t \in Threads : \A i \in DOMAIN stack[t] : stack[t][i].kind # "token"
      /\ access_token \in {NoToken, StaticToken}
      /\ access_token = StaticToken =>
            /\ expires_at >= StartTime + 7200 * Sec
            /\ expires_at <= now + 7200 * Sec
      /\ \A t \in Threads :
            (obs[t].ensure.authed /\ obs[t].ensure.handed) =>
               obs[t].ensure.leftAtHandoff = 7200 * Sec
      /\ lastReq.rebuilt => lastReq.tok = StaticToken

\* C25 witness: in static bearer mode a request was answered 401, the secret
\* was installed again and the request was sent once more with it
C25_Witness ==
    /\ ~client_id
    /\ lastReq.rebuilt
    /\ lastReq.tok = StaticToken
    /\ access_token = StaticToken
    /\ obs[1].reauths = 1

\* the page requests of thread t that are outstanding
Outstanding(t) ==
    Len(SelectSeq(stack[t], LAMBDA f : f.fn = "req" /\ f.kind = "resource"))

\* C26: within one call of the collector the pages are requested one after
\* the other: a request is issued only when every earlier response has been
\* received and parsed, a cursor request carries exactly the cursor of the
\* response before it, and at most one page request is outstanding
C26_PagesInSequence ==
    \A t \in Threads :
      op[t].name \in CollectOps =>
        /\ Outstanding(t) <= 1
        /\ Outstanding(t) = 1 => op[t].pc \in {"first_wait", "page_wait"}
        /\ op[t].requested \in {op[t].page, op[t].page + 1}
        /\ op[t].pc \in {"first_wait", "page_wait"} => op[t].requested = op[t].page + 1
        /\ op[t].pc = "loop" => op[t].requested = op[t].page
        /\ op[t].pc = "page_wait" =>
              /\ op[t].params.next = op[t].prevNext
              /\ op[t].params.next # NoNext

\* C26 witness: the third request of a list_clients call is outstanding and
\* carries the cursor of the second response, which differs from the first
C26_Witness ==
    /\ op[1].name = "list_clients"
    /\ op[1].pc = "page_wait"
    /\ Outstanding(1) = 1
    /\ op[1].requested = 3
    /\ op[1].firstNext = 1
    /\ op[1].prevNext = 2
    /\ op[1].params.next = 2

\* a listing of thread t has returned
ListingReturned(t) ==
    /\ op[t].name \in Listings
    /\ op[t].pc = "done"
    /\ op[t].result.st = "ok"

\* C27: on one client with a client id, when list_sites, the client listing
\* and the device listing are called in sequence, authentication is
\* performed exactly once in total (on first use, the token being reused
\* while valid), and each listing returns the items the upstream served
C27_OneAuthenticationForListings ==
    \A t \in Threads :
      (client_id /\ ListingReturned(t)) =>
        /\ issued = 1
        /\ access_token # NoToken
        /\ lastReq.tok # NoToken
        /\ op[t].collected = AccumulatedBefore(t)

\* the last request sent is a page request of list_clients_single_site
ClientsRequest ==
    /\ lastReq.kind = "resource"
    /\ op[lastReq.thread].name = "list_clients"

\* C28: list_clients_single_site fetches through the offset collector, whose
\* requests carry limit and offset, and the base parameters it passes hold a
\* `filter` entry, for every site id
C28_ClientsFilterAndOffset ==
    ClientsRequest =>
      /\ lastReq.params.filter
      /\ lastReq.params.offset >= 0

\* ceil(n / b) for b > 0
CeilDiv(n, b) == (n + b - 1) \div b

RECURSIVE Concat(_, _)
\* the row lists of calls from the k-th on, one after the other
Concat(calls, k) ==
    IF k > Len(calls) THEN <<>> ELSE calls[k] \o Concat(calls, k + 1)

\* the batch size in force: the configured one, or with none configured the
\* number of rows
BatchSizeInForce == IF db.env # 0 THEN db.env ELSE Len(db.rows)

V2RequestFailed(c) == c.pc = "done" /\ c.err.st = "exc"

\* the last response on the wire was a 404 to a request for the resource
Answered404 == lastReq.kind = "resource" /\ lastReq.status = 404

C30_FallbackOn404 ==
    LET c == caller[1] IN
    (c.name = "fetch_device_status" /\ env.use_v2) =>
      /\ (c.pc = "fallback" /\ op[1].pc = "idle") =>
           Answered404 /\ env.fallback
      /\ (V2RequestFailed(c) /\ ~c.fellBack) =>
           /\ ~(Answered404 /\ env.fallback)
           /\ c.result = c.err
           /\ c.result.exc = "http" => c.result.status = lastReq.status
      /\ (V2RequestFailed(c) /\ c.fellBack) =>
           /\ op[1].name = "list_devices" /\ op[1].pc = "done"
           /\ IF op[1].result.st = "ok"
              THEN c.result.st = "ok" /\ c.items = op[1].collected
              ELSE c.result = c.err /\ c.result.names = 404
      /\ (c.statusCode # 0 /\ c.result.st = "exc") => c.statusCode = 500
      /\ (c.statusCode # 0 /\ c.result.st = "ok" /\ db.pc # "failed") =>
           c.statusCode = 200

\* the v2 request was answered with 404, the fallback listing returned
\* devices, and the handler stored them and answered 200
C30_Witness ==
    /\ env.use_v2 /\ env.fallback
    /\ caller[1].fellBack
    /\ caller[1].err.status = 404
    /\ caller[1].items # <<>>
    /\ caller[1].statusCode = 200


\* C38: the offset loop of the v2 device status fetch. The k-th page request
\* carries offset (k - 1) * L, which is the number of events read so far; the
\* loop goes on only after a full page below max_pages_per_call pages, and
\* what it returns is the in-order concatenation of the pages it read
InV2Loop == op[1].name = "device_status_v2"

C38_OffsetLoop ==
    LET o == op[1]
        L == ClientPageLimit IN
    InV2Loop =>
      /\ o.pc \in {"build", "await"} =>
           /\ o.params.limit = L
           /\ o.params.offset = (o.page - 1) * L
           /\ o.params.offset = Len(o.collected)
      /\ (o.pc = "await" /\ ret[1].st = "ok" /\ stack[1] = <<>>) =>
           /\ lastReq.kind = "resource"
           /\ lastReq.params.offset = (o.page - 1) * L
           /\ lastReq.params.limit = L
      /\ (o.pc = "ensure" /\ o.page >= 1) =>
           o.lastLen = L /\ o.page < max_pages_per_call
      /\ o.page <= max_pages_per_call
      /\ o.collected = o.raw
      /\ (o.pc = "done" /\ o.result.st = "ok") =>
           \/ o.lastLen = 0
           \/ o.lastLen < L
           \/ o.page = max_pages_per_call

\* C38 witness: three full pages were read at offsets 0, L and 2L and the loop
\* stopped at max_pages_per_call
C38_Witness ==
    /\ InV2Loop
    /\ op[1].pc = "done"
    /\ op[1].page = max_pages_per_call
    /\ op[1].lastLen = ClientPageLimit
    /\ op[1].params.offset = 2 * ClientPageLimit
    /\ Len(op[1].collected) = 3 * ClientPageLimit


\* C36: batched inserts are all-or-nothing. An insert that returned has
\* executed every batch, committed after the last of them, not rolled back,
\* and returns the number of input rows; while batches are being executed
\* nothing is committed; an insert whose batch or commit raised has rolled
\* back, has not committed and raises; an empty input returns 0 and leaves
\* the connection alone
BatchRaised == db.pc = "failed" /\ db.calls # <<>>

C36_AllOrNothing ==
    /\ db.pc = "loop" => ~db.committed /\ ~db.rolledBack
    /\ (db.pc = "done" /\ db.rows # <<>>) =>
         /\ db.committed /\ ~db.rolledBack
         /\ db.i >= Len(db.rows)
         /\ db.inserted = Len(db.rows)
         /\ db.result.st = "ok"
    /\ BatchRaised =>
         /\ db.rolledBack /\ ~db.committed
         /\ db.result.st = "exc"
    /\ (db.pc = "done" /\ db.rows = <<>>) =>
         /\ db.inserted = 0 /\ db.result.st = "ok"
         /\ ~db.touched /\ ~db.committed /\ ~db.rolledBack /\ db.calls = <<>>

\* C36 witness: the second batch of an insert raised after the first had been
\* executed, and the insert rolled back
C36_Witness ==
    /\ BatchRaised
    /\ Len(db.calls) = 2
    /\ db.inserted > 0
    /\ db.rolledBack


\* C33: physical attempts of one logical request. Whatever the responses,
\* one call of get() sends at most max(max_retries, 2) requests to the
\* resource URL: the retry after a 401 recovery is attempt 2 of the same
\* counter, and no attempt beyond max_retries is made
C33_AttemptsBounded ==
    \A t \in Threads :
        op[t].name = "get" =>
          /\ obs[t].requests <= Max2(max_retries, 2)
          /\ (lastReq.kind = "resource" /\ lastReq.thread = t /\ obs[t].requests >= 1) =>
                lastReq.attempt = obs[t].requests

\* C33 witness: a 401 recovery on the first attempt, a retriable failure on
\* the second, and the third attempt, the last one allowed, was sent
C33_Witness ==
    /\ op[1].name = "get"
    /\ obs[1].reauths = 1
    /\ obs[1].requests = max_retries
    /\ lastReq.kind = "resource"
    /\ lastReq.attempt = max_retries


\* _authenticate has just raised to _ensure_token on thread t
EnsureFailed(t) ==
    /\ InOp(t, "get", "ensure_wait")
    /\ stack[t] = <<>>
    /\ ret[t].st = "exc"

\* _authenticate has just raised inside the 401 recovery of thread t's
\* resource request
RecoveryFailed(t) ==
    /\ stack[t] # <<>>
    /\ InFrame(t, "req", "reauth")
    /\ Top(t).kind = "resource"
    /\ ret[t].st = "exc"

\* C35: a failed authentication never installs or alters a token. When
\* _authenticate raises inside _ensure_token the cached token is the one held
\* before the call; when it raises inside the 401 recovery the cache is empty
C35_FailedAuthKeepsToken ==
    \A t \in Threads :
        /\ EnsureFailed(t) => access_token = obs[t].ensure.tok
        /\ RecoveryFailed(t) => access_token = NoToken /\ expires_at = NoTime


\* thread t is entering _do_request and has not been granted its slot
AsksForSlot(t) ==
    stack[t] # <<>> /\ Top(t).fn = "req" /\ Top(t).pc \in {"limiter", "grant"}

\* thread t holds the lock: it is inside `with self._lock`, between the
\* computation of the wait and the update of _last_request_ts
LockHeldInLimiterOnly ==
    /\ lock \in Threads \cup {0}
    /\ \A t \in Threads :
          lock = t <=> (stack[t] # <<>> /\ Top(t).fn = "req" /\ Top(t).pc = "grant")

C32_TokenUrlResolution ==
    urls.built =>
      /\ urls.oauth_token_url =
           IF Truthy(urls.env_token_url) THEN urls.env_token_url
           ELSE IF Truthy(urls.oauth_token_url_arg) THEN urls.oauth_token_url_arg
           ELSE IF Contains(urls.base_url_arg, "api.central") THEN SsoTokenUrl
           ELSE urls.base_url \o <<"/oauth2/token">>
      /\ (Truthy(urls.oauth_token_url_arg) /\ urls.oauth_token_url = SsoTokenUrl) =>
            urls.env_token_url = SsoTokenUrl
      /\ urls.base_url # <<>> => urls.base_url[Len(urls.base_url)] # "/"

\* C32 witness: a client for a gateway host was built with a configured token
\* URL on that host ending in /oauth2/token and no environment value, and
\* kept the configured URL
C32_Witness ==
    /\ urls.built
    /\ Contains(urls.base_url, "api.central")
    /\ ~Truthy(urls.env_token_url)
    /\ Truthy(urls.oauth_token_url_arg)
    /\ Contains(urls.oauth_token_url_arg, "/oauth2/token")
    /\ urls.oauth_token_url = urls.oauth_token_url_arg

\* C31: with DB_CLOSE_EACH_INVOCATION true, no statement of an invocation
\* after the first is attempted on the connection that the invocation
\* before it closed:
\* every handler re-opens what the previous invocation closed before it
\* writes
C31_WritesOnOpenConnection ==
    proc.close_conn /\ proc.k >= 2 /\ proc.closed => proc.onNone = 0

\* the same for the handlers that write through the batched inserts only
C31_BatchedHandlersReopen ==
    proc.handler # "aps" => proc.onNone = 0

\* a second invocation has written on a connection that the first had closed
C31_Reopened ==
    /\ proc.close_conn
    /\ proc.k >= 2
    /\ proc.writes > 0

\* the AP handler has answered an invocation in which it entered its loop
ApIngestionReturned ==
    /\ proc.handler = "aps"
    /\ proc.k > 0
    /\ proc.pc = "idle"
    /\ ~proc.raised

\* the APs of the invocation that went the way o
ApsWith(o) == {j \in 1..Len(proc.done) : proc.done[j].outcome = o}

\* C37: once the list of APs is fetched the AP handler treats every AP of
\* it, whatever failed for the ones before, answers 200, and inserted +
\* failed + skipped is the number of APs discovered; an AP counted as
\* inserted has had every child row of the AP written
C37_AllChildRowsOfTheAp ==
    /\ proc.handler = "aps" /\ proc.pc = "write" => proc.i = Len(proc.done)
    /\ ApIngestionReturned =>
         /\ proc.statusCode = 200
         /\ Len(proc.done) = Len(proc.aps)
         /\ proc.inserted + proc.failed + Cardinality(ApsWith("skipped"))
              = Len(proc.aps)
         /\ \A j \in ApsWith("inserted") :
              SelectSeq(proc.done[j].written, LAMBDA w : w \in ChildTables)
                = ChildRows(proc.aps[j].details)

\* C37 as the code has it: an AP counted as inserted has had every child
\* row of the details fetched for it written, which are none when the
\* details request failed
C37_PerApIsolation ==
    /\ proc.handler = "aps" /\ proc.pc = "write" => proc.i = Len(proc.done)
    /\ ApIngestionReturned =>
         /\ proc.statusCode = 200
         /\ Len(proc.done) = Len(proc.aps)
         /\ proc.inserted = Cardinality(ApsWith("inserted"))
         /\ proc.failed = Cardinality(ApsWith("failed"))
         /\ proc.inserted + proc.failed + Cardinality(ApsWith("skipped"))
              = Len(proc.aps)
         /\ \A j \in 1..Len(proc.done) :
              /\ proc.done[j].outcome = "skipped" <=> ~proc.aps[j].serial
              /\ proc.done[j].outcome = "inserted" =>
                   /\ proc.done[j].written = ApStatements(proc.done[j].details)
                   /\ proc.done[j].details \in {proc.aps[j].details, NoDetails}

\* an invocation answered 200 after its first AP failed and a later one was
\* inserted with child rows
C37_Witness ==
    /\ ApIngestionReturned
    /\ Len(proc.done) = 2
    /\ proc.done[1].outcome = "failed"
    /\ proc.done[2].outcome = "inserted"
    /\ ChildRows(proc.done[2].details) # <<>>
    /\ proc.statusCode = 200

====
